---- MODULE Spec2Model ----
(***************************************************************************)
(* Washington spring-bloom indicator: the analysis pipeline of             *)
(* scripts/analyze_spring.py (zoning, onset percentile, baseline/anomaly   *)
(* evaluation with granularity fallback, species aggregation, indicator    *)
(* selection and rollups).                                                 *)
(*                                                                         *)
(* The program computes in Python floats (IEEE-754 binary64, round to      *)
(* nearest, ties to even).  The model keeps that arithmetic: a float is a  *)
(* record [s, m, e] standing for s * m * 2^e with m a natural number of at *)
(* most 53 bits held as a sequence of 15-bit limbs (TLC's integers are 32  *)
(* bits wide), and every operation rounds its exact result to 53 bits as   *)
(* the hardware does.                                                      *)
(***************************************************************************)
EXTENDS Integers, Sequences, FiniteSets, TLC

(***************************************************************************)
(* Natural numbers of any size: little-endian sequences of limbs in base   *)
(* 2^15 without leading zero limbs; <<>> is 0.                             *)
(***************************************************************************)
Base == 2^15

RECURSIVE BNorm(_)
BNorm(a) ==
  IF a = <<>> THEN <<>>
  ELSE IF a[Len(a)] = 0 THEN BNorm(SubSeq(a, 1, Len(a) - 1))
  ELSE a

BFromNat(n) ==
  IF n = 0 THEN <<>>
  ELSE IF n < Base THEN <<n>>
  ELSE IF n < Base * Base THEN <<n % Base, n \div Base>>
  ELSE <<n % Base, (n \div Base) % Base, n \div (Base * Base)>>

\* The value of a natural number below 2^31.
BToNat(a) ==
  IF a = <<>> THEN 0
  ELSE IF Len(a) = 1 THEN a[1]
  ELSE IF Len(a) = 2 THEN a[1] + Base * a[2]
  ELSE a[1] + Base * a[2] + Base * Base * a[3]

RECURSIVE BAddC(_, _, _)
BAddC(a, b, c) ==
  IF a = <<>> /\ b = <<>> THEN (IF c = 0 THEN <<>> ELSE <<c>>)
  ELSE LET x == IF a = <<>> THEN 0 ELSE Head(a)
           y == IF b = <<>> THEN 0 ELSE Head(b)
           s == x + y + c
       IN  <<s % Base>> \o BAddC(IF a = <<>> THEN <<>> ELSE Tail(a),
                                 IF b = <<>> THEN <<>> ELSE Tail(b),
                                 s \div Base)

BAdd(a, b) == BAddC(a, b, 0)

\* a - b for a >= b.
RECURSIVE BSubC(_, _, _)
BSubC(a, b, c) ==
  IF a = <<>> THEN <<>>
  ELSE LET y == IF b = <<>> THEN 0 ELSE Head(b)
           d == Head(a) - y - c
       IN  <<IF d < 0 THEN d + Base ELSE d>>
             \o BSubC(Tail(a), IF b = <<>> THEN <<>> ELSE Tail(b),
                      IF d < 0 THEN 1 ELSE 0)

BSub(a, b) == BNorm(BSubC(a, b, 0))

\* -1, 0 or 1 as a < b, a = b or a > b.
RECURSIVE BCmpFrom(_, _, _)
BCmpFrom(a, b, i) ==
  IF i = 0 THEN 0
  ELSE IF a[i] < b[i] THEN -1
  ELSE IF a[i] > b[i] THEN 1
  ELSE BCmpFrom(a, b, i - 1)

BCmp(a, b) ==
  IF Len(a) < Len(b) THEN -1
  ELSE IF Len(a) > Len(b) THEN 1
  ELSE BCmpFrom(a, b, Len(a))

\* a * k for 0 <= k <= 2^15.
RECURSIVE BMulSmallC(_, _, _)
BMulSmallC(a, k, c) ==
  IF a = <<>> THEN (IF c = 0 THEN <<>> ELSE <<c>>)
  ELSE LET p == Head(a) * k + c
       IN  <<p % Base>> \o BMulSmallC(Tail(a), k, p \div Base)

BMulSmall(a, k) == BNorm(BMulSmallC(a, k, 0))

RECURSIVE BMul(_, _)
BMul(a, b) ==
  IF b = <<>> \/ a = <<>> THEN <<>>
  ELSE BNorm(BAdd(BMulSmall(a, Head(b)), <<0>> \o BMul(a, Tail(b))))

\* Quotient and remainder of a by d, 1 <= d <= 2^15, from the top limb down.
RECURSIVE BDivSmallR(_, _, _)
BDivSmallR(a, d, i) ==
  IF i > Len(a) THEN [q |-> <<>>, r |-> 0]
  ELSE LET hi == BDivSmallR(a, d, i + 1)
           n  == hi.r * Base + a[i]
       IN  [q |-> <<n \div d>> \o hi.q, r |-> n % d]

BDivSmall(a, d) ==
  LET Normal(res) == [q |-> BNorm(res.q), r |-> res.r]
  IN  Normal(BDivSmallR(a, d, 1))

Zeros(n) == [i \in 1..n |-> 0]

\* a * 2^k and floor(a / 2^k).
BShl(a, k) ==
  IF a = <<>> THEN <<>>
  ELSE BMulSmall(Zeros(k \div 15) \o a, 2^(k % 15))

BShr(a, k) ==
  IF k \div 15 >= Len(a) THEN <<>>
  ELSE BDivSmall(SubSeq(a, (k \div 15) + 1, Len(a)), 2^(k % 15)).q

BitsOf(n) == CHOOSE k \in 0..15 : n < 2^k /\ (k = 0 \/ 2^(k - 1) <= n)

BitLen(a) ==
  IF a = <<>> THEN 0 ELSE 15 * (Len(a) - 1) + BitsOf(a[Len(a)])

BIsOdd(a) == a # <<>> /\ a[1] % 2 = 1

\* The number of trailing zero bits of a # 0.
RECURSIVE LowZeroLimbs(_)
LowZeroLimbs(a) == IF a[1] # 0 THEN 0 ELSE 1 + LowZeroLimbs(Tail(a))

LowZeroBits(n) == CHOOSE k \in 0..15 : n % (2^k) = 0 /\ (n \div (2^k)) % 2 = 1

TrailingZeros(a) ==
  LET Bits(z) == 15 * z + LowZeroBits(a[z + 1])
  IN  Bits(LowZeroLimbs(a))

(***************************************************************************)
(* Python floats.  s * m * 2^e in canonical form: m odd, or m = 0 with     *)
(* s = 1 and e = 0 (the sign of a zero is not kept: no comparison,         *)
(* abs() or sum of the program tells -0.0 from 0.0).                       *)
(***************************************************************************)
FZero == [s |-> 1, m |-> <<>>, e |-> 0]

\* The exact dyadic value s * m * 2^e in canonical form (m of any size).
Normalized(s, m, e, z) == [s |-> s, m |-> BShr(m, z), e |-> e + z]

Dyadic(s, m, e) ==
  IF m = <<>> THEN FZero ELSE Normalized(s, m, e, TrailingZeros(m))

\* x without its k lowest bits, to nearest, ties to even; q1 is x.m without
\* its k - 1 lowest bits, so that its lowest bit is the round bit.  x.m is
\* odd: for k > 1 the bits below the round bit are not all zero and a set
\* round bit rounds up; for k = 1 the round bit is set and the dropped part
\* is an exact tie, which rounds up when the bit above it is set.
RoundHalfEven(x, k, q1) ==
  Dyadic(x.s,
         BShr(BAdd(q1, IF k = 1 /\ q1[1] % 4 = 1 THEN <<>> ELSE <<1>>), 1),
         x.e + k)

\* Round to nearest, ties to even, of an exact canonical dyadic value.
Round53(x) ==
  IF BitLen(x.m) <= 53 THEN x
  ELSE RoundHalfEven(x, BitLen(x.m) - 53, BShr(x.m, BitLen(x.m) - 54))

\* float(n) for an int n, |n| < 2^31.
FromInt(n) ==
  Dyadic(IF n < 0 THEN -1 ELSE 1, BFromNat(IF n < 0 THEN -n ELSE n), 0)

FNeg(x) == IF x.m = <<>> THEN x ELSE [x EXCEPT !.s = -x.s]

FAbs(x) == [x EXCEPT !.s = 1]

\* sa * ma * 2^e + sb * mb * 2^e for ma, mb # 0.
SignedSum(sa, ma, sb, mb, e) ==
  Dyadic(IF sa = sb \/ BCmp(ma, mb) >= 0 THEN sa ELSE sb,
         IF sa = sb THEN BAdd(ma, mb)
         ELSE IF BCmp(ma, mb) >= 0 THEN BSub(ma, mb)
         ELSE BSub(mb, ma),
         e)

\* The exact sum of two floats, not yet rounded.
ExactAdd(a, b) ==
  IF a.m = <<>> THEN b
  ELSE IF b.m = <<>> THEN a
  ELSE SignedSum(a.s, BShl(a.m, IF a.e < b.e THEN 0 ELSE a.e - b.e),
                 b.s, BShl(b.m, IF a.e < b.e THEN b.e - a.e ELSE 0),
                 IF a.e < b.e THEN a.e ELSE b.e)

FAdd(a, b) == Round53(ExactAdd(a, b))

FSub(a, b) == Round53(ExactAdd(a, FNeg(b)))

FMul(a, b) == Round53(Dyadic(a.s * b.s, BMul(a.m, b.m), a.e + b.e))

\* -1, 0 or 1 as a < b, a = b or a > b.
FCmp(a, b) ==
  LET Sign(d) == IF d.m = <<>> THEN 0 ELSE d.s
  IN  Sign(ExactAdd(a, FNeg(b)))

FLe(a, b) == FCmp(a, b) <= 0

FGe(a, b) == FCmp(a, b) >= 0

FGt(a, b) == FCmp(a, b) > 0

\* s * (res.q + a fraction) * 2^e rounded; a remainder only tells that the
\* exact quotient lies strictly between two neighbours, which an appended
\* low bit records.
Quotient(s, res, e) ==
  Round53(Dyadic(s,
                 IF res.r = 0 THEN res.q ELSE BAdd(BShl(res.q, 1), <<1>>),
                 IF res.r = 0 THEN e ELSE e - 1))

\* a / b for a divisor whose odd part is below 2^15 (here: 2, the powers of
\* ten of round() and the sums of integer weights).  The dividend is widened
\* by 71 bits, so that the quotient has at least 56.
FDiv(a, b) ==
  IF a.m = <<>> THEN FZero
  ELSE Quotient(a.s * b.s, BDivSmall(BShl(a.m, 71), BToNat(b.m)), a.e - b.e - 71)

\* math.floor and math.ceil of a float whose integer part is below 2^31.
Floor(x) ==
  IF x.m = <<>> THEN 0
  ELSE IF x.e >= 0 THEN x.s * BToNat(BShl(x.m, x.e))
  ELSE LET Below(q) == IF x.s = 1 THEN q ELSE -(q + 1)
       IN  Below(BToNat(BShr(x.m, -x.e)))

Ceil(x) == -Floor(FNeg(x))

\* int(x): truncation toward zero.
Trunc(x) == x.s * Floor(FAbs(x))

\* The float nearest to the decimal n / 10^digits: what a decimal literal
\* and the string-to-float step of round() give.
FromDecimal(n, digits) == FDiv(FromInt(n), FromInt(10^digits))

\* M / 2^k to the nearest integer, ties to even: q1 is floor(M / 2^(k-1)),
\* whose lowest bit is the half, and sticky tells whether M has a bit set
\* below it.
NearestInt(q1, sticky) ==
  BToNat(BShr(q1, 1))
    + IF q1 # <<>> /\ (q1[1] % 4 = 3 \/ (q1[1] % 2 = 1 /\ sticky)) THEN 1 ELSE 0

\* round(x, digits): Python rounds the exact value of x correctly to
\* `digits` decimals, ties to even, and returns the float nearest to that
\* decimal.  RoundScaled is the decimal's numerator n (the result is
\* FromDecimal(n, digits)); a rounded field is held as n in the model.
RoundScaled(x, digits) ==
  IF x.m = <<>> THEN 0
  ELSE IF x.e >= 0 THEN x.s * BToNat(BShl(BMulSmall(x.m, 10^digits), x.e))
  ELSE x.s * NearestInt(BShr(BMulSmall(x.m, 10^digits), -x.e - 1),
                        TrailingZeros(BMulSmall(x.m, 10^digits)) < -x.e - 1)

(***************************************************************************)
(* Program constants.                                                      *)
(***************************************************************************)
\* date.today().year on the day of the run; the baseline window hangs on it.
CURRENT_YEAR == 2026
BASELINE_START_YEAR == CURRENT_YEAR - 9
BASELINE_END_YEAR == CURRENT_YEAR - 1

\* An optional value is None or Some(v); an exception is a record of its own.
None == <<>>
Some(v) == <<v>>
ValueError == [error |-> "ValueError"]

\* The literal 0.2 handed to percentile() and the threshold 7 of the statuses.
P20 == FromDecimal(2, 1)
STATUS_THRESHOLD_DAYS == 7

(***************************************************************************)
(* Sorting: sorted() is stable, and with reverse=True it still keeps the   *)
(* original order of elements with equal keys.                             *)
(***************************************************************************)
\* Lexicographic order of two tuples of ints of one length.
RECURSIVE LexLess(_, _)
LexLess(a, b) ==
  IF a = <<>> THEN FALSE
  ELSE IF Head(a) < Head(b) THEN TRUE
  ELSE IF Head(a) > Head(b) THEN FALSE
  ELSE LexLess(Tail(a), Tail(b))

\* The index i goes in after every index whose key is not greater.
RECURSIVE InsertIdx(_, _, _)
InsertIdx(order, i, keys) ==
  IF order = <<>> THEN <<i>>
  ELSE IF LexLess(keys[i], keys[Head(order)]) THEN <<i>> \o order
  ELSE <<Head(order)>> \o InsertIdx(Tail(order), i, keys)

RECURSIVE StableOrder(_, _)
StableOrder(n, keys) ==
  IF n = 0 THEN <<>> ELSE InsertIdx(StableOrder(n - 1, keys), n, keys)

\* sorted(seq, key=...): keys[i] is the key (a tuple of ints) of seq[i].
SortedByKey(seq, keys) ==
  LET order == StableOrder(Len(seq), keys)
  IN  [k \in 1..Len(seq) |-> seq[order[k]]]

\* sorted(values) of a list of ints.
SortedInts(values) == SortedByKey(values, [i \in 1..Len(values) |-> <<values[i]>>])

\* sorted(data) of a list of floats.
RECURSIVE InsertFloat(_, _)
InsertFloat(seq, x) ==
  IF seq = <<>> THEN <<x>>
  ELSE IF FCmp(x, Head(seq)) < 0 THEN <<x>> \o seq
  ELSE <<Head(seq)>> \o InsertFloat(Tail(seq), x)

RECURSIVE SortedFloats(_)
SortedFloats(data) ==
  IF data = <<>> THEN <<>>
  ELSE InsertFloat(SortedFloats(SubSeq(data, 1, Len(data) - 1)), data[Len(data)])

(***************************************************************************)
(* percentile(values, p): values is a list of ints (days of the year), p a *)
(* float.  ValueError stands for the exception raised on an empty list.    *)
(***************************************************************************)
\* lines 282-285: seq[lo] * (1 - frac) + seq[hi] * frac.
Interpolated(lo_value, hi_value, frac) ==
  FAdd(FMul(lo_value, FSub(FromInt(1), frac)), FMul(hi_value, frac))

\* lines 279-285, lo and hi being floor(idx) and ceil(idx).
PercentileBetween(seq, idx, lo, hi) ==
  IF lo = hi THEN FromInt(seq[Trunc(idx) + 1])
  ELSE Interpolated(FromInt(seq[lo + 1]), FromInt(seq[hi + 1]), FSub(idx, FromInt(lo)))

\* lines 278-285, seq being sorted(values) and idx (len(seq) - 1) * p.
PercentileAt(seq, idx) == PercentileBetween(seq, idx, Floor(idx), Ceil(idx))

percentile(values, p) ==
  IF values = <<>> THEN ValueError
  ELSE IF Len(values) = 1 THEN FromInt(values[1])
  ELSE PercentileAt(SortedInts(values), FMul(FromInt(Len(values) - 1), p))

\* The median of a sorted non-empty list of floats.
Middle(sorted) ==
  IF Len(sorted) % 2 = 1 THEN sorted[(Len(sorted) \div 2) + 1]
  ELSE FDiv(FAdd(sorted[Len(sorted) \div 2], sorted[(Len(sorted) \div 2) + 1]),
            FromInt(2))

\* statistics.median of a non-empty list of floats.
median(data) == Middle(SortedFloats(data))

(***************************************************************************)
(* Zoning.  Latitude and longitude are floats; an elevation is Some float   *)
(* or None.                                                                *)
(***************************************************************************)
cascade_divide_lon(lat) ==
  FAdd(FNeg(FromDecimal(12180, 2)),
       FMul(FSub(lat, FromDecimal(455, 1)), FromDecimal(14, 2)))

\* side_of_cascades with the divide itself given to the east.
side_of_cascades_inclusive(lat, lon) ==
  IF FGe(lon, cascade_divide_lon(lat)) THEN "east" ELSE "west"

side_of_cascades(lat, lon) ==
  IF FGt(lon, cascade_divide_lon(lat)) THEN "east" ELSE "west"

elevation_band(elev_m) ==
  IF elev_m = None THEN "unknown"
  ELSE IF FCmp(elev_m[1], FromInt(500)) < 0 THEN "low"
  ELSE IF FCmp(elev_m[1], FromInt(1200)) < 0 THEN "mid"
  ELSE "high"

classify_status(anomaly_days) ==
  IF FLe(anomaly_days, FromInt(-STATUS_THRESHOLD_DAYS)) THEN "early"
  ELSE IF FGe(anomaly_days, FromInt(STATUS_THRESHOLD_DAYS)) THEN "late"
  ELSE "normal"

(***************************************************************************)
(* Observations.  An Observation is held as                                *)
(*   [lat, lon : decimal degrees * 100 (the float is FromDecimal(lat, 2)), *)
(*    elev_m : None or Some(metres), year, doy : the date observed_on]     *)
(* species, taxon_id, uri, photo_url and place_guess take no part in the   *)
(* analysis and are left out.                                              *)
(***************************************************************************)
obs_lat(obs) == FromDecimal(obs.lat, 2)
obs_lon(obs) == FromDecimal(obs.lon, 2)
obs_elev(obs) == IF obs.elev_m = None THEN None ELSE Some(FromInt(obs.elev_m[1]))

\* obs.observed_on <= CURRENT_DATE, dates compared as (year, day of year).
NotAfterToday(obs, today_doy) ==
  obs.year < CURRENT_YEAR \/ (obs.year = CURRENT_YEAR /\ obs.doy <= today_doy)

(***************************************************************************)
(* Dictionaries.  A dict kept for its iteration order is [keys, val]: the  *)
(* keys in insertion order and the value of each.  A year map (never       *)
(* iterated) is a function from the years present to their lists.          *)
(***************************************************************************)
EmptyDict == [keys |-> <<>>, val |-> <<>>]

HasKey(d, k) == \E i \in 1..Len(d.keys) : d.keys[i] = k

DictGet(d, k, default) ==
  IF HasKey(d, k) THEN d.val[CHOOSE i \in 1..Len(d.keys) : d.keys[i] = k] ELSE default

DictPut(d, k, v) ==
  IF HasKey(d, k)
  THEN [d EXCEPT !.val[CHOOSE i \in 1..Len(d.keys) : d.keys[i] = k] = v]
  ELSE [keys |-> Append(d.keys, k), val |-> Append(d.val, v)]

EmptyYearMap == [y \in {} |-> <<>>]

YearGet(year_map, year) == IF year \in DOMAIN year_map THEN year_map[year] ELSE <<>>

YearAppend(year_map, year, doy) ==
  [y \in DOMAIN year_map \cup {year} |->
     IF y = year THEN Append(YearGet(year_map, year), doy) ELSE year_map[y]]

(***************************************************************************)
(* summarize_species, first loop: the observations are filed by zone, by   *)
(* side and statewide, year by year; those of the current year that are    *)
(* not after today are counted.                                            *)
(***************************************************************************)
\* The places the observations of the inputs are made at (lat, lon in
\* hundredths of a degree, elevation in metres).
Seattle   == [lat |-> 4761, lon |-> -12233, elev_m |-> Some(50)]
MountSi   == [lat |-> 4749, lon |-> -12172, elev_m |-> Some(800)]
Yakima    == [lat |-> 4660, lon |-> -12051, elev_m |-> Some(325)]
Wenatchee == [lat |-> 4742, lon |-> -12031, elev_m |-> None]

Places == {Seattle, MountSi, Yakima, Wenatchee}

\* side_of_cascades and the zone string, tabulated over the places (a table
\* is evaluated once; its entries are the values of the operators).
SideOfPlace == [place \in Places |-> side_of_cascades(obs_lat(place), obs_lon(place))]

ZoneOfPlace == [place \in Places |->
                  SideOfPlace[place] \o "-" \o elevation_band(obs_elev(place))]

PlaceOf(obs) == [lat |-> obs.lat, lon |-> obs.lon, elev_m |-> obs.elev_m]

obs_side(obs) == SideOfPlace[PlaceOf(obs)]

obs_zone(obs) == ZoneOfPlace[PlaceOf(obs)]

NoGroups ==
  [by_zone_year |-> EmptyDict, by_side_year |-> EmptyDict,
   by_state_year |-> EmptyYearMap,
   current_obs_by_zone |-> EmptyDict, current_obs_by_side |-> EmptyDict,
   current_obs_state |-> 0]

\* One pass of the loop body.
FileObservation(g, obs, today_doy) ==
  LET Counted(filed, side, zone) ==
        IF obs.year = CURRENT_YEAR /\ NotAfterToday(obs, today_doy)
        THEN [filed EXCEPT
                !.current_obs_by_zone = DictPut(@, zone, DictGet(@, zone, 0) + 1),
                !.current_obs_by_side = DictPut(@, side, DictGet(@, side, 0) + 1),
                !.current_obs_state = @ + 1]
        ELSE filed
      Filed(side, zone) ==
        Counted([g EXCEPT
                   !.by_zone_year = DictPut(@, zone,
                      YearAppend(DictGet(@, zone, EmptyYearMap), obs.year, obs.doy)),
                   !.by_side_year = DictPut(@, side,
                      YearAppend(DictGet(@, side, EmptyYearMap), obs.year, obs.doy)),
                   !.by_state_year = YearAppend(@, obs.year, obs.doy)],
                side, zone)
  IN  Filed(obs_side(obs), obs_zone(obs))

RECURSIVE FileObservations(_, _, _)
FileObservations(observations, n, today_doy) ==
  IF n = 0 THEN NoGroups
  ELSE FileObservation(FileObservations(observations, n - 1, today_doy),
                       observations[n], today_doy)

(***************************************************************************)
(* eval_groups.  BaselineCalls lists, in order, the calls of percentile()  *)
(* for the baseline years of one group (years from BASELINE_START_YEAR up  *)
(* to `year`): each call with the list it is handed.                       *)
(***************************************************************************)
\* BaselineCalls without the test of line 360.
RECURSIVE BaselineCallsUnchecked(_, _, _)
BaselineCallsUnchecked(year_map, min_year_obs, year) ==
  IF year < BASELINE_START_YEAR THEN <<>>
  ELSE Append(BaselineCallsUnchecked(year_map, min_year_obs, year - 1),
              [kind |-> "baseline", doys |-> YearGet(year_map, year),
               onset |-> percentile(YearGet(year_map, year), P20)])

\* Each call is [kind, doys, onset]: the list handed over and what
\* percentile(doys, 0.2) gives for it.
RECURSIVE BaselineCalls(_, _, _)
BaselineCalls(year_map, min_year_obs, year) ==
  IF year < BASELINE_START_YEAR THEN <<>>
  ELSE IF Len(YearGet(year_map, year)) >= min_year_obs
  THEN Append(BaselineCalls(year_map, min_year_obs, year - 1),
              [kind |-> "baseline", doys |-> YearGet(year_map, year),
               onset |-> percentile(YearGet(year_map, year), P20)])
  ELSE BaselineCalls(year_map, min_year_obs, year - 1)

\* baseline_onsets: the onsets of the first n calls.
RECURSIVE Onsets(_, _)
Onsets(calls, n) ==
  IF n = 0 THEN <<>> ELSE Append(Onsets(calls, n - 1), calls[n].onset)

\* The calls up to the first that raised ValueError.
RECURSIVE CallsUpToRaise(_, _)
CallsUpToRaise(calls, n) ==
  IF n > Len(calls) THEN calls
  ELSE IF calls[n].onset = ValueError THEN SubSeq(calls, 1, n)
  ELSE CallsUpToRaise(calls, n + 1)

\* lines 374-386: the row of a group, anomaly being current_doy or today's
\* day of the year less baseline_doy.
GroupRow(group_name, baseline_years, baseline_doy, current_doy, anomaly, current_obs) ==
  [zone |-> group_name,
   baseline_doy |-> RoundScaled(baseline_doy, 1),
   current_doy |-> IF current_doy # None
                   THEN Some(RoundScaled(current_doy[1], 1)) ELSE None,
   anomaly_days |-> RoundScaled(anomaly, 1),
   status |-> IF current_doy # None THEN classify_status(anomaly)
              ELSE IF FGe(anomaly, FromInt(STATUS_THRESHOLD_DAYS)) THEN "late"
              ELSE "pending",
   baseline_years |-> baseline_years,
   current_obs |-> current_obs,
   has_current |-> current_doy # None]

\* lines 368-372, current_doy being None without current observations.
GroupAnomaly(group_name, baseline_years, baseline_doy, current_doy, current_obs, today_doy) ==
  GroupRow(group_name, baseline_years, baseline_doy, current_doy,
           FSub(IF current_doy # None THEN current_doy[1] ELSE FromInt(today_doy),
                baseline_doy),
           current_obs)

\* lines 363-386, after the loop over the baseline years.
GroupResult(group_name, baseline_calls, current_doys, current_obs, min_baseline_years, today_doy) ==
  IF \E i \in 1..Len(baseline_calls) : baseline_calls[i].onset = ValueError
  THEN [rows |-> <<>>, calls |-> CallsUpToRaise(baseline_calls, 1), raised |-> TRUE]
  ELSE IF Len(baseline_calls) < min_baseline_years
  THEN [rows |-> <<>>, calls |-> baseline_calls, raised |-> FALSE]
  ELSE [rows |-> <<GroupAnomaly(group_name, Len(baseline_calls),
                                median(Onsets(baseline_calls, Len(baseline_calls))),
                                IF Len(current_doys) >= 1
                                THEN Some(percentile(current_doys, P20)) ELSE None,
                                current_obs, today_doy)>>,
        calls |-> IF Len(current_doys) >= 1
                  THEN Append(baseline_calls,
                              [kind |-> "current", doys |-> current_doys])
                  ELSE baseline_calls,
        raised |-> FALSE]

\* One pass of the loop over the groups: [rows, calls, raised], rows being
\* the row appended (none when the group is skipped), calls the calls of
\* percentile() made on the way, and raised whether one of them raised
\* ValueError, which ends the pass at that call.
EvalGroup(group_name, year_map, current_obs_map, min_year_obs, min_baseline_years, today_doy) ==
  GroupResult(group_name,
              BaselineCalls(year_map, min_year_obs, BASELINE_END_YEAR),
              YearGet(year_map, CURRENT_YEAR),
              DictGet(current_obs_map, group_name, 0),
              min_baseline_years, today_doy)

\* The loop over year_maps.items(), in insertion order, up to the first
\* exception.
RECURSIVE EvalGroupsUpTo(_, _, _, _, _, _)
EvalGroupsUpTo(year_maps, n, current_obs_map, min_year_obs, min_baseline_years, today_doy) ==
  IF n = 0 THEN [rows |-> <<>>, calls |-> <<>>, raised |-> FALSE]
  ELSE LET Then(before, this) ==
             IF before.raised THEN before
             ELSE [rows |-> before.rows \o this.rows,
                   calls |-> before.calls \o this.calls,
                   raised |-> this.raised]
       IN  Then(EvalGroupsUpTo(year_maps, n - 1, current_obs_map,
                               min_year_obs, min_baseline_years, today_doy),
                EvalGroup(year_maps.keys[n], year_maps.val[n], current_obs_map,
                          min_year_obs, min_baseline_years, today_doy))

eval_groups(year_maps, current_obs_map, min_year_obs, min_baseline_years, today_doy) ==
  EvalGroupsUpTo(year_maps, Len(year_maps.keys), current_obs_map,
                 min_year_obs, min_baseline_years, today_doy)

(***************************************************************************)
(* summarize_species, after the fallback: the species anomaly and status.  *)
(* A rounded field (baseline_doy, current_doy, anomaly_days) is held as    *)
(* the numerator n of its decimal; the float is FromDecimal(n, digits).    *)
(***************************************************************************)
Max(a, b) == IF a >= b THEN a ELSE b

Min(a, b) == IF a <= b THEN a ELSE b

Abs(n) == IF n < 0 THEN -n ELSE n

NoSignal ==
  [numer |-> FZero, denom |-> FZero,
   has_current_zone |-> FALSE, has_late_without_current |-> FALSE]

\* AddZone with line 427 left out.
AddZoneForgetLate(acc, zone) ==
  IF zone.has_current
  THEN LET weight == Max(1, zone.baseline_years) * Max(1, zone.current_obs)
       IN  [acc EXCEPT
              !.has_current_zone = TRUE,
              !.numer = FAdd(@, FMul(FromDecimal(zone.anomaly_days, 1), FromInt(weight))),
              !.denom = FAdd(@, FromInt(weight))]
  ELSE IF zone.status = "late"
  THEN LET weight == Max(1, zone.baseline_years)
       IN  [acc EXCEPT
              !.numer = FAdd(@, FMul(FromDecimal(zone.anomaly_days, 1), FromInt(weight))),
              !.denom = FAdd(@, FromInt(weight))]
  ELSE acc

\* AddZone with the weight of line 423 without its second factor.
AddZoneUnweighted(acc, zone) ==
  IF zone.has_current
  THEN LET weight == Max(1, zone.baseline_years)
       IN  [acc EXCEPT
              !.has_current_zone = TRUE,
              !.numer = FAdd(@, FMul(FromDecimal(zone.anomaly_days, 1), FromInt(weight))),
              !.denom = FAdd(@, FromInt(weight))]
  ELSE IF zone.status = "late"
  THEN LET weight == Max(1, zone.baseline_years)
       IN  [acc EXCEPT
              !.has_late_without_current = TRUE,
              !.numer = FAdd(@, FMul(FromDecimal(zone.anomaly_days, 1), FromInt(weight))),
              !.denom = FAdd(@, FromInt(weight))]
  ELSE acc

\* One pass of the loop over zone_results.
AddZone(acc, zone) ==
  IF zone.has_current
  THEN LET weight == Max(1, zone.baseline_years) * Max(1, zone.current_obs)
       IN  [acc EXCEPT
              !.has_current_zone = TRUE,
              !.numer = FAdd(@, FMul(FromDecimal(zone.anomaly_days, 1), FromInt(weight))),
              !.denom = FAdd(@, FromInt(weight))]
  ELSE IF zone.status = "late"
  THEN LET weight == Max(1, zone.baseline_years)
       IN  [acc EXCEPT
              !.has_late_without_current = TRUE,
              !.numer = FAdd(@, FMul(FromDecimal(zone.anomaly_days, 1), FromInt(weight))),
              !.denom = FAdd(@, FromInt(weight))]
  ELSE acc

RECURSIVE AddZones(_, _)
AddZones(zone_results, n) ==
  IF n = 0 THEN NoSignal ELSE AddZone(AddZones(zone_results, n - 1), zone_results[n])

\* The zone results left in the order of the evaluation.
UnsortedZones(zone_results) == zone_results

\* sorted(zone_results, key=lambda z: abs(z["anomaly_days"]), reverse=True)
SortedZones(zone_results) ==
  SortedByKey(zone_results,
              [i \in 1..Len(zone_results) |-> <<-Abs(zone_results[i].anomaly_days)>>])

\* lines 432-462, acc being what the loop over zone_results leaves.
SpeciesDict(species_name, zone_results, granularity, current_obs_state, acc) ==
  LET Dict(species_anomaly) ==
        [species |-> species_name,
         status |-> IF acc.has_current_zone THEN classify_status(species_anomaly)
                    ELSE IF acc.has_late_without_current THEN "late"
                    ELSE "pending",
         anomaly_days |-> RoundScaled(species_anomaly, 2),
         zones_used |-> Len(zone_results),
         granularity |-> granularity,
         zones |-> SortedZones(zone_results),
         current_obs_total |-> current_obs_state,
         has_current_data |-> acc.has_current_zone]
  IN  Dict(IF acc.denom # FZero THEN FDiv(acc.numer, acc.denom) ELSE FZero)

\* The dict returned by summarize_species (the fields of the analysis).
SpeciesSummary(species_name, zone_results, granularity, current_obs_state) ==
  SpeciesDict(species_name, zone_results, granularity, current_obs_state,
              AddZones(zone_results, Len(zone_results)))

(***************************************************************************)
(* pick_indicator_species, build_zone_summary, overall_status.             *)
(***************************************************************************)
granularity_rank(granularity) ==
  CASE granularity = "zone" -> 2
    [] granularity = "side" -> 1
    [] granularity = "state" -> 0
    [] OTHER -> 0

\* The sort key of a summary.
RankKey(s) ==
  <<granularity_rank(s.granularity), s.zones_used, s.current_obs_total,
    -Abs(s.anomaly_days)>>

\* sorted(..., key=RankKey, reverse=True)[:limit]: descending in the key is
\* ascending in the key with every component negated.
pick_indicator_species(species_summaries, limit) ==
  LET ranked == SortedByKey(species_summaries,
                  [i \in 1..Len(species_summaries) |->
                     [k \in 1..4 |-> -RankKey(species_summaries[i])[k]]])
  IN  SubSeq(ranked, 1, IF Len(ranked) < limit THEN Len(ranked) ELSE limit)

(***************************************************************************)
(* sum() of a non-empty list of floats, from the int 0.  Up to Python 3.11 *)
(* it adds from left to right; from 3.12 on it carries Neumaier's          *)
(* compensation term and adds it at the end.  Which of the two runs is a   *)
(* matter of the interpreter, so both are kept.                            *)
(***************************************************************************)
RECURSIVE SumPlain(_, _)
SumPlain(xs, n) == IF n = 0 THEN FZero ELSE FAdd(SumPlain(xs, n - 1), xs[n])

\* t = f + x; c += (f - t) + x when |f| >= |x|, else (x - t) + f; f = t.
NeumaierStep(before, x) ==
  [f |-> FAdd(before.f, x),
   c |-> FAdd(before.c,
              FAdd(FSub(IF FGe(FAbs(before.f), FAbs(x)) THEN before.f ELSE x,
                        FAdd(before.f, x)),
                   IF FGe(FAbs(before.f), FAbs(x)) THEN x ELSE before.f))]

RECURSIVE SumNeumaier(_, _)
SumNeumaier(xs, n) ==
  IF n = 1 THEN [f |-> xs[1], c |-> FZero]
  ELSE NeumaierStep(SumNeumaier(xs, n - 1), xs[n])

float_sum(xs, compensated) ==
  IF ~compensated THEN SumPlain(xs, Len(xs))
  ELSE LET Total(r) == IF r.c # FZero THEN FAdd(r.f, r.c) ELSE r.f
       IN  Total(SumNeumaier(xs, Len(xs)))

RECURSIVE IntSum(_, _)
IntSum(xs, n) == IF n = 0 THEN 0 ELSE IntSum(xs, n - 1) + xs[n]

\* The zone names in the order Python compares strings.
ZoneNameOrder ==
  <<"east", "east-high", "east-low", "east-mid", "east-unknown", "statewide",
    "west", "west-high", "west-low", "west-mid", "west-unknown">>

ZoneNameRank(zone) == CHOOSE i \in 1..Len(ZoneNameOrder) : ZoneNameOrder[i] = zone

\* zone_data after the loops over the indicators and their zones: for each
\* zone, in order of first appearance, its (anomaly_days, weight) pairs.
RECURSIVE ZoneDataOfZones(_, _, _)
ZoneDataOfZones(zone_data, zones, n) ==
  IF n = 0 THEN zone_data
  ELSE LET before == ZoneDataOfZones(zone_data, zones, n - 1)
           zone == zones[n]
           weight == Max(1, zone.baseline_years) * Max(1, zone.current_obs)
       IN  DictPut(before, zone.zone,
                   Append(DictGet(before, zone.zone, <<>>),
                          <<zone.anomaly_days, weight>>))

RECURSIVE ZoneData(_, _)
ZoneData(indicators, n) ==
  IF n = 0 THEN EmptyDict
  ELSE ZoneDataOfZones(ZoneData(indicators, n - 1), indicators[n].zones,
                       Len(indicators[n].zones))

\* The row of one zone of zone_data.
ZoneRow(zone, values, compensated) ==
  LET Row(anomaly) ==
        [zone |-> zone,
         anomaly_days |-> RoundScaled(anomaly, 2),
         status |-> classify_status(anomaly),
         species_count |-> Len(values)]
      Mean(numer, denom) == IF denom # 0 THEN FDiv(numer, FromInt(denom)) ELSE FZero
  IN  Row(Mean(float_sum([i \in 1..Len(values) |->
                            FMul(FromDecimal(values[i][1], 1), FromInt(values[i][2]))],
                         compensated),
               IntSum([i \in 1..Len(values) |-> values[i][2]], Len(values))))

\* lines 488-498: a row for each zone of zone_data.
RECURSIVE ZoneRowsUpTo(_, _, _)
ZoneRowsUpTo(zone_data, n, compensated) ==
  IF n = 0 THEN <<>>
  ELSE Append(ZoneRowsUpTo(zone_data, n - 1, compensated),
              ZoneRow(zone_data.keys[n], zone_data.val[n], compensated))

ZoneRows(zone_data, compensated) ==
  ZoneRowsUpTo(zone_data, Len(zone_data.keys), compensated)

build_zone_summary(indicators, compensated) ==
  LET Sorted(rows) ==
        SortedByKey(rows, [i \in 1..Len(rows) |-> <<ZoneNameRank(rows[i].zone)>>])
  IN  Sorted(ZoneRows(ZoneData(indicators, Len(indicators)), compensated))

\* OverallSums with the pending species counted like the others.
RECURSIVE OverallSumsCountPending(_, _)
OverallSumsCountPending(indicators, n) ==
  IF n = 0 THEN [numer |-> FZero, denom |-> FZero]
  ELSE LET before == OverallSumsCountPending(indicators, n - 1)
           species == indicators[n]
           weight == Max(1, species.zones_used) * Max(1, species.current_obs_total)
       IN  [numer |-> FAdd(before.numer,
                           FMul(FromDecimal(species.anomaly_days, 2), FromInt(weight))),
            denom |-> FAdd(before.denom, FromInt(weight))]

\* numer and denom of overall_status after the first n indicators.
RECURSIVE OverallSums(_, _)
OverallSums(indicators, n) ==
  IF n = 0 THEN [numer |-> FZero, denom |-> FZero]
  ELSE LET before == OverallSums(indicators, n - 1)
           species == indicators[n]
           weight == Max(1, species.zones_used) * Max(1, species.current_obs_total)
       IN  IF species.status = "pending" THEN before
           ELSE [numer |-> FAdd(before.numer,
                                FMul(FromDecimal(species.anomaly_days, 2), FromInt(weight))),
                 denom |-> FAdd(before.denom, FromInt(weight))]

\* line 511.
OverallMean(sums) ==
  IF sums.denom # FZero THEN FDiv(sums.numer, sums.denom) ELSE FZero

\* lines 512-524.
OverallDict(indicators, anomaly) ==
  [status |-> classify_status(anomaly),
   anomaly_days |-> RoundScaled(anomaly, 2),
   species_count |-> Len(indicators),
   species_with_signal |->
     Cardinality({i \in 1..Len(indicators) : indicators[i].status # "pending"}),
   interpretation |->
     IF FLe(anomaly, FromInt(-7)) THEN "earlier"
     ELSE IF FGe(anomaly, FromInt(7)) THEN "later"
     ELSE "close"]

overall_status(indicators) ==
  OverallDict(indicators, OverallMean(OverallSums(indicators, Len(indicators))))

(***************************************************************************)
(* The fallback of summarize_species: the three calls of eval_groups.      *)
(***************************************************************************)
\* StateLevel with min_baseline_years=5.
StateLevelFiveYears(by_state, current_state, today) ==
  eval_groups([keys |-> <<"statewide">>, val |-> <<by_state>>],
              [keys |-> <<"statewide">>, val |-> <<current_state>>], 2, 5, today)

\* ZoneLevel with min_baseline_years=3.
ZoneLevelThreeYears(by_zone, current_by_zone, today) ==
  eval_groups(by_zone, current_by_zone, 3, 3, today)

ZoneLevel(by_zone, current_by_zone, today) ==
  eval_groups(by_zone, current_by_zone, 3, 4, today)

SideLevel(by_side, current_by_side, today) ==
  eval_groups(by_side, current_by_side, 2, 4, today)

StateLevel(by_state, current_state, today) ==
  eval_groups([keys |-> <<"statewide">>, val |-> <<by_state>>],
              [keys |-> <<"statewide">>, val |-> <<current_state>>], 2, 4, today)

\* lines 389-462: zone is what the zone level gives, side what the side
\* level gives if it is called, state what the state level gives if it is.
SummarizeFallback(species_name, g, zone, side, state) ==
  IF zone = <<>> /\ side = <<>> /\ state = <<>> THEN None
  ELSE Some(SpeciesSummary(species_name,
              IF zone # <<>> THEN zone ELSE IF side # <<>> THEN side ELSE state,
              IF zone # <<>> THEN "zone" ELSE IF side # <<>> THEN "side" ELSE "state",
              g.current_obs_state))

\* lines 348-462, g being what the loop over the observations leaves.
SummarizeFiled(species_name, g, today) ==
  SummarizeFallback(species_name, g,
                    ZoneLevel(g.by_zone_year, g.current_obs_by_zone, today).rows,
                    SideLevel(g.by_side_year, g.current_obs_by_side, today).rows,
                    StateLevel(g.by_state_year, g.current_obs_state, today).rows)

\* summarize_species as a whole: None, or Some of the dict returned.
summarize_species(species_name, observations, today) ==
  SummarizeFiled(species_name,
                 FileObservations(observations, Len(observations), today), today)

(***************************************************************************)
(* The inputs.  A profile is the sightings <<place, day of year>> of one    *)
(* year, in the order the API returns them.                                *)
(***************************************************************************)
BaselineProfiles ==
  << << <<Seattle, 70>>, <<Seattle, 72>>, <<Seattle, 75>> >>,
     << <<Seattle, 71>>, <<Yakima, 64>>, <<Seattle, 71>>,
        <<Yakima, 66>>, <<Seattle, 73>>, <<Yakima, 66>> >>,
     << <<Seattle, 51>>, <<MountSi, 51>> >>,
     << <<Seattle, 70>>, <<Wenatchee, 72>> >> >>

CurrentProfiles ==
  << <<>>,
     << <<Seattle, 58>>, <<Seattle, 60>> >>,
     << <<Yakima, 105>> >>,
     << <<Seattle, 58>> >>,
     << <<Seattle, 58>>, <<Yakima, 72>>, <<Seattle, 60>> >>,
     << <<Yakima, 50>> >> >>

\* Sightings of the year before the baseline window.
EarlierProfile == << <<Seattle, 70>>, <<Seattle, 72>>, <<Seattle, 75>> >>

Todays == {58, 100}

YearObservations(profile, year) ==
  [i \in 1..Len(profile) |->
     [lat |-> profile[i][1].lat, lon |-> profile[i][1].lon,
      elev_m |-> profile[i][1].elev_m, year |-> year, doy |-> profile[i][2]]]

\* A schedule gives, for each baseline profile, the number of baseline years
\* that follow it; the years are filled from BASELINE_START_YEAR on, profile
\* by profile, and the years left over have no observation.
RECURSIVE ScheduleSum(_, _)
ScheduleSum(schedule, n) ==
  IF n = 0 THEN 0 ELSE ScheduleSum(schedule, n - 1) + schedule[n]

\* At most MaxObservedYears of the nine baseline years have observations.
MaxObservedYears == 5

Schedules ==
  {schedule \in [1..Len(BaselineProfiles) -> 0..MaxObservedYears] :
     ScheduleSum(schedule, Len(BaselineProfiles))
       <= Min(MaxObservedYears, BASELINE_END_YEAR - BASELINE_START_YEAR + 1)}

ProfileOfYear(schedule, year) ==
  LET k == year - BASELINE_START_YEAR + 1
      at == {j \in 1..Len(BaselineProfiles) : ScheduleSum(schedule, j) >= k}
  IN  IF at = {} THEN <<>>
      ELSE BaselineProfiles[CHOOSE j \in at : \A i \in at : j <= i]

RECURSIVE BaselineObservations(_, _)
BaselineObservations(schedule, year) ==
  IF year < BASELINE_START_YEAR THEN <<>>
  ELSE BaselineObservations(schedule, year - 1)
         \o YearObservations(ProfileOfYear(schedule, year), year)

InputObservations(schedule, current_profile) ==
  YearObservations(EarlierProfile, BASELINE_START_YEAR - 1)
    \o BaselineObservations(schedule, BASELINE_END_YEAR)
    \o YearObservations(current_profile, CURRENT_YEAR)

(***************************************************************************)
(* summarize_species, step by step.  pc is the place in the function:      *)
(*   "file"      the loop over the observations (335-346)                  *)
(*   "zone"      eval_groups at zone level (389-395)                       *)
(*   "side"      the test of 396 and eval_groups at side level (396-403)   *)
(*   "state"     the test of 404 and eval_groups statewide (404-411)       *)
(*   "summarize" the test of 413 and the rest of the function (413-462)    *)
(*   "returned"  the function has returned `summary` (None or Some dict)   *)
(*   "raised"    an exception left the function                            *)
(* evaluated lists the levels eval_groups has been called at, and          *)
(* percentile_calls the calls of percentile() so far, each with the level, *)
(* the kind of group-year and the length of the list handed over.          *)
(***************************************************************************)
VARIABLES observations, today_doy, pc,
          by_zone_year, by_side_year, by_state_year,
          current_obs_by_zone, current_obs_by_side, current_obs_state,
          zone_results, granularity, evaluated, percentile_calls, summary,
          values, onset, pct_pc,
          fetched, next_species, species_summaries, limit, indicators,
          zone_summary, overall, compensated_sum, main_pc,
          point, zone_key, zone_pc,
          attempt, slept, fetch_result, fetch_pc,
          page, results_len, observations_len, paging_pc

\* summarize_species
svars == <<observations, pc, by_zone_year, by_side_year, by_state_year,
           current_obs_by_zone, current_obs_by_side, current_obs_state,
           zone_results, granularity, evaluated, percentile_calls, summary>>

\* a call of percentile
pvars == <<values, onset, pct_pc>>

\* main
mvars == <<fetched, next_species, species_summaries, limit, indicators,
           zone_summary, overall, compensated_sum, main_pc>>

\* the zone key of one observation
zvars == <<point, zone_key, zone_pc>>

\* a call of fetch_json
fvars == <<attempt, slept, fetch_result, fetch_pc>>

\* a call of fetch_species_observations
gvars == <<page, results_len, observations_len, paging_pc>>

vars == <<today_doy, svars, pvars, mvars, zvars, fvars, gvars, gvars>>

\* No call of summarize_species, of percentile, of main under way.
SummarizeIdle ==
  /\ observations = <<>>
  /\ pc = "idle"
  /\ by_zone_year = EmptyDict
  /\ by_side_year = EmptyDict
  /\ by_state_year = EmptyYearMap
  /\ current_obs_by_zone = EmptyDict
  /\ current_obs_by_side = EmptyDict
  /\ current_obs_state = 0
  /\ zone_results = <<>>
  /\ granularity = None
  /\ evaluated = <<>>
  /\ percentile_calls = <<>>
  /\ summary = None

PercentileIdle ==
  /\ values = <<>>
  /\ onset = None
  /\ pct_pc = "idle"

ZoneKeyIdle ==
  /\ point = None
  /\ zone_key = None
  /\ zone_pc = "idle"

\* What a call of fetch_json ends with: nothing yet, the payload returned,
\* or the exception raised (code is the status code of an HTTPError, and 0
\* otherwise).
FetchResult(kind, value, code) == [kind |-> kind, value |-> value, code |-> code]

NoResult == FetchResult("none", "", 0)

FetchIdle ==
  /\ attempt = 0
  /\ slept = <<>>
  /\ fetch_result = NoResult
  /\ fetch_pc = "idle"

\* The observations list is held by its length, and the results of the page
\* last fetched by theirs.
PagingIdle ==
  /\ page = 0
  /\ results_len = 0
  /\ observations_len = 0
  /\ paging_pc = "idle"

MainIdle ==
  /\ fetched = <<>>
  /\ next_species = 0
  /\ species_summaries = <<>>
  /\ limit = 0
  /\ indicators = <<>>
  /\ zone_summary = <<>>
  /\ overall = None
  /\ compensated_sum = FALSE
  /\ main_pc = "idle"

Init ==
  /\ \E schedule \in Schedules, current \in 1..Len(CurrentProfiles) :
       observations = InputObservations(schedule, CurrentProfiles[current])
  /\ today_doy \in Todays
  /\ pc = "file"
  /\ by_zone_year = EmptyDict
  /\ by_side_year = EmptyDict
  /\ by_state_year = EmptyYearMap
  /\ current_obs_by_zone = EmptyDict
  /\ current_obs_by_side = EmptyDict
  /\ current_obs_state = 0
  /\ zone_results = <<>>
  /\ granularity = None
  /\ evaluated = <<>>
  /\ percentile_calls = <<>>
  /\ summary = None
  /\ PercentileIdle
  /\ MainIdle
  /\ ZoneKeyIdle
  /\ FetchIdle
  /\ PagingIdle

FileAll ==
  /\ pc = "file"
  /\ \E g \in {FileObservations(observations, Len(observations), today_doy)} :
         /\ by_zone_year' = g.by_zone_year
         /\ by_side_year' = g.by_side_year
         /\ by_state_year' = g.by_state_year
         /\ current_obs_by_zone' = g.current_obs_by_zone
         /\ current_obs_by_side' = g.current_obs_by_side
         /\ current_obs_state' = g.current_obs_state
  /\ pc' = "zone"
  /\ UNCHANGED <<pvars, mvars, zvars, fvars, gvars, observations, today_doy, zone_results, granularity, evaluated,
                 percentile_calls, summary>>

\* What a call of eval_groups at `level` leaves behind; percentile() raising
\* ValueError ends summarize_species.
Evaluated(level, result, next_pc) ==
  /\ evaluated' = Append(evaluated, level)
  /\ percentile_calls' = percentile_calls \o
       [i \in 1..Len(result.calls) |->
          [level |-> level, kind |-> result.calls[i].kind,
           n |-> Len(result.calls[i].doys)]]
  /\ IF result.raised
     THEN /\ pc' = "raised"
          /\ UNCHANGED <<zone_results, granularity>>
     ELSE /\ zone_results' = result.rows
          /\ granularity' = Some(level)
          /\ pc' = next_pc
  /\ UNCHANGED <<pvars, mvars, zvars, fvars, gvars, observations, today_doy, by_zone_year, by_side_year, by_state_year,
                 current_obs_by_zone, current_obs_by_side, current_obs_state, summary>>

EvalZone ==
  /\ pc = "zone"
  /\ \E result \in {ZoneLevel(by_zone_year, current_obs_by_zone, today_doy)} :
       Evaluated("zone", result, "side")

EvalSide ==
  /\ pc = "side"
  /\ zone_results = <<>>
  /\ \E result \in {SideLevel(by_side_year, current_obs_by_side, today_doy)} :
       Evaluated("side", result, "state")

\* The side level evaluated although the zone level gave results.
EvalSideAnyway ==
  /\ pc = "side"
  /\ zone_results # <<>>
  /\ \E result \in {SideLevel(by_side_year, current_obs_by_side, today_doy)} :
       Evaluated("side", result, "state")

SkipSide ==
  /\ pc = "side"
  /\ zone_results # <<>>
  /\ pc' = "state"
  /\ UNCHANGED <<pvars, mvars, zvars, fvars, gvars, observations, today_doy, by_zone_year, by_side_year, by_state_year,
                 current_obs_by_zone, current_obs_by_side, current_obs_state,
                 zone_results, granularity, evaluated, percentile_calls, summary>>

EvalState ==
  /\ pc = "state"
  /\ zone_results = <<>>
  /\ \E result \in {StateLevel(by_state_year, current_obs_state, today_doy)} :
       Evaluated("state", result, "summarize")

SkipState ==
  /\ pc = "state"
  /\ zone_results # <<>>
  /\ pc' = "summarize"
  /\ UNCHANGED <<pvars, mvars, zvars, fvars, gvars, observations, today_doy, by_zone_year, by_side_year, by_state_year,
                 current_obs_by_zone, current_obs_by_side, current_obs_state,
                 zone_results, granularity, evaluated, percentile_calls, summary>>

ReturnNone ==
  /\ pc = "summarize"
  /\ zone_results = <<>>
  /\ summary' = None
  /\ pc' = "returned"
  /\ UNCHANGED <<pvars, mvars, zvars, fvars, gvars, observations, today_doy, by_zone_year, by_side_year, by_state_year,
                 current_obs_by_zone, current_obs_by_side, current_obs_state,
                 zone_results, granularity, evaluated, percentile_calls>>

ReturnSummary ==
  /\ pc = "summarize"
  /\ zone_results # <<>>
  /\ summary' = Some(SpeciesSummary("sp", zone_results, granularity[1], current_obs_state))
  /\ pc' = "returned"
  /\ UNCHANGED <<pvars, mvars, zvars, fvars, gvars, observations, today_doy, by_zone_year, by_side_year, by_state_year,
                 current_obs_by_zone, current_obs_by_side, current_obs_state,
                 zone_results, granularity, evaluated, percentile_calls>>

Next ==
  \/ FileAll
  \/ EvalZone
  \/ EvalSide
  \/ SkipSide
  \/ EvalState
  \/ SkipState
  \/ ReturnNone
  \/ ReturnSummary

Spec == Init /\ [][Next]_vars

(***************************************************************************)
(* What the observations say, in exact arithmetic.  A group of a level is  *)
(* a zone string, a side, or "statewide".                                  *)
(***************************************************************************)
Last(seq) == seq[Len(seq)]

Levels == <<"zone", "side", "state">>

GroupOf(obs, level) ==
  IF level = "zone" THEN obs_zone(obs)
  ELSE IF level = "side" THEN obs_side(obs)
  ELSE "statewide"

GroupsAt(level) ==
  {GroupOf(observations[i], level) : i \in 1..Len(observations)}
    \cup (IF level = "state" THEN {"statewide"} ELSE {})

\* The days of year of the observations of a group in a year, in order.
RECURSIVE DoysUpTo(_, _, _, _)
DoysUpTo(level, group, year, n) ==
  IF n = 0 THEN <<>>
  ELSE LET before == DoysUpTo(level, group, year, n - 1)
       IN  IF observations[n].year = year /\ GroupOf(observations[n], level) = group
           THEN Append(before, observations[n].doy)
           ELSE before

DoysOf(level, group, year) == DoysUpTo(level, group, year, Len(observations))

\* (min_year_obs, min_baseline_years) of a level.
Thresholds(level) == IF level = "zone" THEN <<3, 4>> ELSE <<2, 4>>

QualifyingYears(level, group) ==
  {year \in (CURRENT_YEAR - 9)..(CURRENT_YEAR - 1) :
     Len(DoysOf(level, group, year)) >= Thresholds(level)[1]}

Admitted(level) ==
  {group \in GroupsAt(level) :
     Cardinality(QualifyingYears(level, group)) >= Thresholds(level)[2]}

\* Five times the 20th percentile of a non-empty list of days: the value at
\* position (n - 1) / 5 of the sorted list, interpolated linearly.
Onset5(doys) ==
  LET seq == SortedInts(doys)
      lo == (Len(seq) - 1) \div 5
      r == (Len(seq) - 1) % 5
  IN  IF r = 0 THEN 5 * seq[lo + 1]
      ELSE (5 - r) * seq[lo + 1] + r * seq[lo + 2]

\* Five times the onsets of the qualifying years of a group up to `year`.
RECURSIVE Onsets5UpTo(_, _, _)
Onsets5UpTo(level, group, year) ==
  IF year < CURRENT_YEAR - 9 THEN <<>>
  ELSE LET before == Onsets5UpTo(level, group, year - 1)
           doys == DoysOf(level, group, year)
       IN  IF Len(doys) >= Thresholds(level)[1] THEN Append(before, Onset5(doys))
           ELSE before

\* Ten times the median of the onsets of the qualifying years of a group.
BaselineOnset10(level, group) ==
  LET onsets == SortedInts(Onsets5UpTo(level, group, CURRENT_YEAR - 1))
      n == Len(onsets)
  IN  IF n % 2 = 1 THEN 2 * onsets[n \div 2 + 1]
      ELSE onsets[n \div 2] + onsets[n \div 2 + 1]

\* classify of an anomaly given in tenths of a day.
Status10(anomaly10) ==
  IF anomaly10 <= -70 THEN "early"
  ELSE IF anomaly10 >= 70 THEN "late"
  ELSE "normal"

\* The level of the results in zone_results, once a level has been evaluated.
ResultsIn == evaluated # <<>> /\ pc # "raised"

Returned == pc = "returned" /\ summary # None

(***************************************************************************)
(* C2: summarize_species evaluates the levels in the order zone, side,     *)
(* statewide and stops at the first level that admits a group: when a zone *)
(* is admitted neither side nor statewide is evaluated, when no zone but a *)
(* side is admitted statewide is not evaluated, and the granularity of the *)
(* summary returned is the level its zones come from.                      *)
(***************************************************************************)
C2_FallbackStopsAtFirstAdmittingLevel ==
  /\ \E n \in 0..Len(Levels) : evaluated = SubSeq(Levels, 1, n)
  /\ Admitted("zone") # {} => Len(evaluated) <= 1
  /\ Admitted("zone") = {} /\ Admitted("side") # {} => Len(evaluated) <= 2
  /\ pc \in {"summarize", "returned"} =>
       \/ Admitted(Last(evaluated)) # {}
       \/ Len(evaluated) = Len(Levels)
  /\ Returned =>
       /\ summary[1].granularity = Last(evaluated)
       /\ {summary[1].zones[i].zone : i \in 1..Len(summary[1].zones)}
            = Admitted(Last(evaluated))

\* A summary is returned from the side level, after the zone level gave none.
C2_SideLevelReturned ==
  /\ Returned
  /\ evaluated = <<"zone", "side">>
  /\ summary[1].granularity = "side"

(***************************************************************************)
(* C3: the status of a returned summary is "pending" exactly when no       *)
(* admitted zone result has current-year data and none is "late".          *)
(***************************************************************************)
C3_PendingIffNoSignal ==
  Returned =>
    (summary[1].status = "pending"
       <=> \A i \in 1..Len(zone_results) :
             ~zone_results[i].has_current /\ zone_results[i].status # "late")

\* Two zones without signal give a pending summary.
C3_PendingWithTwoZones ==
  /\ Returned
  /\ summary[1].status = "pending"
  /\ summary[1].zones_used = 2

(***************************************************************************)
(* C4: a group gets a zone result exactly when at least min_baseline_years *)
(* of the nine baseline years have at least min_year_obs observations of   *)
(* the group each, with (3, 4) at zone level and (2, 4) at side and        *)
(* statewide level; years outside the baseline window and the current year *)
(* do not count, and baseline_years is the number of qualifying years.     *)
(***************************************************************************)
C4_AdmissionByQualifyingYears ==
  ResultsIn =>
    LET level == Last(evaluated)
    IN  /\ Len(zone_results) = Cardinality(Admitted(level))
        /\ \A i \in 1..Len(zone_results) :
             /\ zone_results[i].zone \in Admitted(level)
             /\ zone_results[i].baseline_years
                  = Cardinality(QualifyingYears(level, zone_results[i].zone))
             /\ \A j \in 1..Len(zone_results) :
                  zone_results[i].zone = zone_results[j].zone => i = j

\* A side is left out with three qualifying baseline years, although the
\* year before the window and the current year have two observations too.
C4_ThreeYearsNotEnough ==
  /\ pc = "state"
  /\ evaluated = <<"zone", "side">>
  /\ zone_results = <<>>
  /\ Cardinality(QualifyingYears("side", "west")) = 3
  /\ Len(DoysOf("side", "west", CURRENT_YEAR - 10)) >= 2
  /\ Len(DoysOf("side", "west", CURRENT_YEAR)) >= 2

(***************************************************************************)
(* C5: the zone result of an admitted group with at least one observation  *)
(* of the current year has as baseline onset the median of the 20th        *)
(* percentiles of the qualifying baseline years, as current onset the 20th *)
(* percentile of the current year's days, as anomaly their difference, and *)
(* as status "early" for an anomaly <= -7, "late" for >= 7, "normal"       *)
(* otherwise; baseline 71 with current days 58, 60 gives onset 58.4,       *)
(* anomaly -12.6 and "early".                                              *)
(***************************************************************************)
C5_ZoneResultWithCurrentData ==
  ResultsIn =>
    \A i \in 1..Len(zone_results) :
      LET row == zone_results[i]
          current == DoysOf(Last(evaluated), row.zone, CURRENT_YEAR)
          baseline10 == BaselineOnset10(Last(evaluated), row.zone)
      IN  current # <<>> =>
            /\ row.has_current
            /\ row.baseline_doy = baseline10
            /\ row.current_doy = Some(2 * Onset5(current))
            /\ row.anomaly_days = 2 * Onset5(current) - baseline10
            /\ row.status = Status10(2 * Onset5(current) - baseline10)
            /\ (baseline10 = 710 /\ current = <<58, 60>>
                  => /\ row.current_doy = Some(584)
                     /\ row.anomaly_days = -126
                     /\ row.status = "early")

\* A zone result with current data and an anomaly of 7.0 days that is "normal".
C5_SevenDaysLateIsNormal ==
  /\ ResultsIn
  /\ \E i \in 1..Len(zone_results) :
       /\ zone_results[i].has_current
       /\ zone_results[i].anomaly_days = 70
       /\ zone_results[i].status = "normal"

(***************************************************************************)
(* C6: the zone result of an admitted group without observation of the     *)
(* current year has no current onset, as anomaly today's day of year minus *)
(* the baseline onset, and as status "late" for an anomaly >= 7 and        *)
(* "pending" otherwise, never "early" or "normal"; today = day 100 with    *)
(* baseline 71 gives anomaly 29 and "late".                                *)
(***************************************************************************)
C6_ZoneResultWithoutCurrentData ==
  ResultsIn =>
    \A i \in 1..Len(zone_results) :
      LET row == zone_results[i]
          current == DoysOf(Last(evaluated), row.zone, CURRENT_YEAR)
          baseline10 == BaselineOnset10(Last(evaluated), row.zone)
      IN  current = <<>> =>
            /\ ~row.has_current
            /\ row.current_doy = None
            /\ row.baseline_doy = baseline10
            /\ row.anomaly_days = 10 * today_doy - baseline10
            /\ row.status = (IF 10 * today_doy - baseline10 >= 70 THEN "late" ELSE "pending")
            /\ row.status \notin {"early", "normal"}
            /\ (today_doy = 100 /\ baseline10 = 710
                  => row.anomaly_days = 290 /\ row.status = "late")

\* A zone result without current data and an anomaly of 7.0 days that is
\* "pending".
C6_SevenDaysLateIsPending ==
  /\ ResultsIn
  /\ \E i \in 1..Len(zone_results) :
       /\ ~zone_results[i].has_current
       /\ zone_results[i].anomaly_days = 70
       /\ zone_results[i].status = "pending"

(***************************************************************************)
(* C8: percentile raises ValueError on an empty list, and summarize_species*)
(* never hands it one: a baseline year's list has at least min_year_obs    *)
(* days, the current year's at least one, and no exception leaves          *)
(* summarize_species.                                                      *)
(***************************************************************************)
C8_PercentileNeverGivenEmptyList ==
  /\ percentile(<<>>, P20) = ValueError
  /\ pc # "raised"
  /\ \A i \in 1..Len(percentile_calls) :
       LET call == percentile_calls[i]
       IN  /\ call.n >= 1
           /\ call.kind = "baseline" => call.n >= Thresholds(call.level)[1]

\* All three levels were evaluated, with calls for baseline years and for a
\* current year of one observation.
C8_CallsAtEveryLevel ==
  /\ pc = "returned"
  /\ evaluated = Levels
  /\ \E i \in 1..Len(percentile_calls) : percentile_calls[i].kind = "baseline"
  /\ \E i \in 1..Len(percentile_calls) :
       percentile_calls[i].kind = "current" /\ percentile_calls[i].n = 1

(***************************************************************************)
(* C9: the anomaly of a species is the weighted mean of the anomalies of   *)
(* its zone results, a zone with current data weighing                     *)
(* max(1, baseline_years) * max(1, current_obs), a "late" zone without     *)
(* current data max(1, baseline_years), and any other zone nothing; with   *)
(* no weight at all the anomaly is 0.0.  The summary holds the anomaly     *)
(* rounded to two decimals: anomaly_days is within half a hundredth of the *)
(* mean.                                                                   *)
(***************************************************************************)
ZoneWeight(zone) ==
  IF zone.has_current THEN Max(1, zone.baseline_years) * Max(1, zone.current_obs)
  ELSE IF zone.status = "late" THEN Max(1, zone.baseline_years)
  ELSE 0

C9_SpeciesAnomalyIsWeightedMean ==
  Returned =>
    LET weights == [i \in 1..Len(zone_results) |-> ZoneWeight(zone_results[i])]
        numer10 == IntSum([i \in 1..Len(zone_results) |->
                             weights[i] * zone_results[i].anomaly_days],
                          Len(zone_results))
        denom == IntSum(weights, Len(zone_results))
    IN  IF denom = 0 THEN summary[1].anomaly_days = 0
        ELSE 2 * Abs(summary[1].anomaly_days * denom - 10 * numer10) <= denom

\* Two zones of different weights and different anomalies.
C9_TwoZonesOfDifferentWeight ==
  /\ Returned
  /\ Len(zone_results) = 2
  /\ ZoneWeight(zone_results[1]) > 0
  /\ ZoneWeight(zone_results[2]) > 0
  /\ ZoneWeight(zone_results[1]) # ZoneWeight(zone_results[2])
  /\ zone_results[1].anomaly_days # zone_results[2].anomaly_days

(***************************************************************************)
(* A call of percentile(values, 0.2) on a list of days of the year.        *)
(***************************************************************************)
MaxValues == 3
MaxDay == 6

\* The lists of at most MaxValues days out of 1..MaxDay.
DayLists == UNION {[1..n -> 1..MaxDay] : n \in 0..MaxValues}

PercentileInit ==
  /\ values \in DayLists
  /\ onset = None
  /\ pct_pc = "call"
  /\ today_doy = CHOOSE day \in Todays : \A other \in Todays : day <= other
  /\ SummarizeIdle
  /\ MainIdle
  /\ ZoneKeyIdle
  /\ FetchIdle
  /\ PagingIdle

PercentileRaises ==
  /\ pct_pc = "call"
  /\ percentile(values, P20) = ValueError
  /\ pct_pc' = "raised"
  /\ UNCHANGED <<values, onset, today_doy, svars, mvars, zvars, fvars, gvars>>

PercentileReturns ==
  /\ pct_pc = "call"
  /\ \E result \in {percentile(values, P20)} :
       /\ result # ValueError
       /\ onset' = Some(result)
  /\ pct_pc' = "returned"
  /\ UNCHANGED <<values, today_doy, svars, mvars, zvars, fvars, gvars>>

PercentileNext ==
  \/ PercentileRaises
  \/ PercentileReturns

SpecPercentile == PercentileInit /\ [][PercentileNext]_vars

MinOf(days) == CHOOSE d \in {days[i] : i \in 1..Len(days)} :
                 \A i \in 1..Len(days) : d <= days[i]

MaxOf(days) == CHOOSE d \in {days[i] : i \in 1..Len(days)} :
                 \A i \in 1..Len(days) : d >= days[i]

(***************************************************************************)
(* C7: for a non-empty list of days percentile(values, 0.2) lies between   *)
(* the least and the greatest of them, both included, and for a list of    *)
(* one day it is that day.                                                 *)
(***************************************************************************)
C7_PercentileWithinRange ==
  pct_pc = "returned" =>
    /\ FLe(FromInt(MinOf(values)), onset[1])
    /\ FLe(onset[1], FromInt(MaxOf(values)))
    /\ Len(values) = 1 => onset[1] = FromInt(values[1])

\* percentile([3, 3], 0.2) is greater than 3.
C7_AboveTheGreatest ==
  /\ pct_pc = "returned"
  /\ values = <<3, 3>>
  /\ FGt(onset[1], FromInt(3))

(***************************************************************************)
(* main: the loop over the candidate species, then the indicators, the     *)
(* zone rollup and the overall rollup.  A candidate is a species with the  *)
(* observations the API returns for it; `fetched` lists the candidates of  *)
(* a run, in the order of CANDIDATE_SPECIES.                               *)
(***************************************************************************)
\* `profile` in each of the first n baseline years.
RECURSIVE RepeatedYears(_, _)
RepeatedYears(profile, n) ==
  IF n = 0 THEN <<>>
  ELSE RepeatedYears(profile, n - 1)
         \o YearObservations(profile, BASELINE_START_YEAR + n - 1)

Candidate(species, profile, n, current_profile) ==
  [species |-> species,
   observations |-> RepeatedYears(profile, n)
                      \o YearObservations(current_profile, CURRENT_YEAR)]

Candidates ==
  << Candidate("Oemleria cerasiformis", BaselineProfiles[1], 4,
               << <<Seattle, 80>>, <<Seattle, 82>>, <<Seattle, 85>> >>),
     Candidate("Ribes sanguineum", BaselineProfiles[1], 4,
               << <<Seattle, 60>>, <<Seattle, 62>>, <<Seattle, 65>> >>),
     Candidate("Mahonia aquifolium",
               << <<Seattle, 70>>, <<Seattle, 71>>, <<Seattle, 75>> >>, 4,
               << <<Seattle, 56>> >>),
     Candidate("Trillium ovatum",
               << <<Seattle, 69>>, <<Seattle, 73>>, <<Seattle, 75>> >>, 4,
               << <<Seattle, 99>> >>),
     Candidate("Camassia quamash", BaselineProfiles[2], 4, CurrentProfiles[5]),
     Candidate("Camassia leichtlinii", BaselineProfiles[3], 4, <<>>),
     Candidate("Erythronium oregonum", BaselineProfiles[1], 3, CurrentProfiles[2]),
     Candidate("Claytonia sibirica", BaselineProfiles[1], 4, <<>>) >>

\* summarize_species of candidate k on the day `today`.
SummaryOfCandidate(k, today) ==
  summarize_species(Candidates[k].species, Candidates[k].observations, today)

MaxSpecies == 2
MaxLimit == 2
DefaultLimit == 20

\* The sequences of at most MaxSpecies different candidates.
Runs ==
  UNION {{run \in [1..n -> 1..Len(Candidates)] :
            \A i, j \in 1..n : run[i] = run[j] => i = j} : n \in 0..MaxSpecies}

MainInit ==
  /\ fetched \in Runs
  /\ today_doy \in Todays
  /\ compensated_sum \in BOOLEAN
  /\ next_species = 1
  /\ species_summaries = <<>>
  /\ limit = 0
  /\ indicators = <<>>
  /\ zone_summary = <<>>
  /\ overall = None
  /\ main_pc = "loop"
  /\ SummarizeIdle
  /\ PercentileIdle
  /\ ZoneKeyIdle
  /\ FetchIdle
  /\ PagingIdle

\* One pass of the loop with a summary (556-559).
SpeciesUsable ==
  /\ main_pc = "loop"
  /\ next_species <= Len(fetched)
  /\ \E species_summary \in {SummaryOfCandidate(fetched[next_species], today_doy)} :
       /\ species_summary # None
       /\ species_summaries' = Append(species_summaries, species_summary[1])
  /\ next_species' = next_species + 1
  /\ UNCHANGED <<fetched, limit, indicators, zone_summary, overall, compensated_sum,
                 main_pc, today_doy, svars, pvars, zvars, fvars, gvars>>

\* The pass for a species without a summary, were the species kept with an
\* empty summary instead of being skipped.
SpeciesKeptAnyway ==
  /\ main_pc = "loop"
  /\ next_species <= Len(fetched)
  /\ SummaryOfCandidate(fetched[next_species], today_doy) = None
  /\ species_summaries' =
       Append(species_summaries,
              SpeciesSummary(Candidates[fetched[next_species]].species, <<>>, "state", 0))
  /\ next_species' = next_species + 1
  /\ UNCHANGED <<fetched, limit, indicators, zone_summary, overall,
                 compensated_sum, main_pc, today_doy, svars, pvars, zvars, fvars, gvars>>

\* One pass of the loop without (560-561).
SpeciesSkipped ==
  /\ main_pc = "loop"
  /\ next_species <= Len(fetched)
  /\ SummaryOfCandidate(fetched[next_species], today_doy) = None
  /\ next_species' = next_species + 1
  /\ UNCHANGED <<fetched, species_summaries, limit, indicators, zone_summary, overall,
                 compensated_sum, main_pc, today_doy, svars, pvars, zvars, fvars, gvars>>

\* pick_indicator_species; main passes DefaultLimit.
PickIndicators ==
  /\ main_pc = "loop"
  /\ next_species > Len(fetched)
  /\ \E l \in (1..MaxLimit) \cup {DefaultLimit} :
       /\ limit' = l
       /\ indicators' = pick_indicator_species(species_summaries, l)
  /\ main_pc' = "zones"
  /\ UNCHANGED <<fetched, next_species, species_summaries, zone_summary, overall,
                 compensated_sum, today_doy, svars, pvars, zvars, fvars, gvars>>

BuildZoneSummary ==
  /\ main_pc = "zones"
  /\ zone_summary' = build_zone_summary(indicators, compensated_sum)
  /\ main_pc' = "overall"
  /\ UNCHANGED <<fetched, next_species, species_summaries, limit, indicators, overall,
                 compensated_sum, today_doy, svars, pvars, zvars, fvars, gvars>>

OverallStatus ==
  /\ main_pc = "overall"
  /\ overall' = Some(overall_status(indicators))
  /\ main_pc' = "written"
  /\ UNCHANGED <<fetched, next_species, species_summaries, limit, indicators,
                 zone_summary, compensated_sum, today_doy, svars, pvars, zvars, fvars, gvars>>

MainNext ==
  \/ SpeciesUsable
  \/ SpeciesSkipped
  \/ PickIndicators
  \/ BuildZoneSummary
  \/ OverallStatus

SpecMain == MainInit /\ [][MainNext]_vars

\* pick_indicator_species has returned.
Picked == main_pc \in {"zones", "overall", "written"}

\* build_zone_summary has returned.
RolledUp == main_pc \in {"overall", "written"}

\* Two summaries alike in all of the ranking key but the anomaly.
SameEvidence(a, b) ==
  /\ a.granularity = b.granularity
  /\ a.zones_used = b.zones_used
  /\ a.current_obs_total = b.current_obs_total

(***************************************************************************)
(* C1: of two species summaries with the same granularity, zones_used and  *)
(* current_obs_total, pick_indicator_species ranks the one with the        *)
(* strictly larger absolute anomaly_days before the other: if the other is *)
(* among the indicators, the one with the larger anomaly is among them     *)
(* too, at an earlier place.                                               *)
(***************************************************************************)
C1_LargerAnomalyRankedFirst ==
  Picked =>
    \A i, j \in 1..Len(species_summaries) :
      (/\ SameEvidence(species_summaries[i], species_summaries[j])
       /\ Abs(species_summaries[i].anomaly_days) > Abs(species_summaries[j].anomaly_days))
      => \A q \in 1..Len(indicators) :
           indicators[q] = species_summaries[j]
             => \E p \in 1..(q - 1) : indicators[p] = species_summaries[i]

\* The limit cuts between two such summaries and the one selected is the one
\* with the smaller absolute anomaly.
C1_SmallerAnomalySelected ==
  /\ Picked
  /\ limit = 1
  /\ Len(species_summaries) = 2
  /\ SameEvidence(species_summaries[1], species_summaries[2])
  /\ \E i, j \in 1..2 :
       /\ indicators = <<species_summaries[j]>>
       /\ Abs(species_summaries[i].anomaly_days) > Abs(species_summaries[j].anomaly_days)

\* The zone results of the first n indicators, one after the other.
RECURSIVE ZonesOfIndicators(_)
ZonesOfIndicators(n) ==
  IF n = 0 THEN <<>> ELSE ZonesOfIndicators(n - 1) \o indicators[n].zones

\* The weight of a zone result in the zone rollup.
RollupWeight(zone) == Max(1, zone.baseline_years) * Max(1, zone.current_obs)

\* Over the zone results of `zones` with the zone string `name`: the sum of
\* the weights, and the sum of the anomalies (in tenths of a day) times the
\* weights.
RECURSIVE RollupDenom(_, _, _)
RollupDenom(zones, name, n) ==
  IF n = 0 THEN 0
  ELSE RollupDenom(zones, name, n - 1)
         + IF zones[n].zone = name THEN RollupWeight(zones[n]) ELSE 0

RECURSIVE RollupNumer10(_, _, _)
RollupNumer10(zones, name, n) ==
  IF n = 0 THEN 0
  ELSE RollupNumer10(zones, name, n - 1)
         + IF zones[n].zone = name
           THEN zones[n].anomaly_days * RollupWeight(zones[n]) ELSE 0

\* classify of the mean numer10 / (10 * denom) days.
StatusOfMean(numer10, denom) ==
  IF numer10 <= -70 * denom THEN "early"
  ELSE IF numer10 >= 70 * denom THEN "late"
  ELSE "normal"

(***************************************************************************)
(* C10: build_zone_summary returns one row for each zone string of the     *)
(* indicators' zone results, in ascending order of the zone names; the     *)
(* anomaly of a row is the mean of the anomalies of the zone results of    *)
(* that zone, each weighted by max(1, baseline_years) * max(1,            *)
(* current_obs) (anomaly_days holds it rounded to two decimals), and its   *)
(* status is "early" for a mean <= -7, "late" for a mean >= 7 and "normal" *)
(* otherwise; two zone results of equal weight with the anomalies +10 and  *)
(* -10 give the anomaly 0.0 and "normal".                                  *)
(***************************************************************************)
C10_ZoneRollupIsWeightedMean ==
  RolledUp =>
    LET zones == ZonesOfIndicators(Len(indicators))
        names == {zones[k].zone : k \in 1..Len(zones)}
    IN  /\ Len(zone_summary) = Cardinality(names)
        /\ {zone_summary[r].zone : r \in 1..Len(zone_summary)} = names
        /\ \A r, t \in 1..Len(zone_summary) :
             r < t => ZoneNameRank(zone_summary[r].zone) < ZoneNameRank(zone_summary[t].zone)
        /\ \A r \in 1..Len(zone_summary) :
             LET row == zone_summary[r]
                 numer10 == RollupNumer10(zones, row.zone, Len(zones))
                 denom == RollupDenom(zones, row.zone, Len(zones))
                 given == {k \in 1..Len(zones) : zones[k].zone = row.zone}
             IN  /\ 2 * Abs(row.anomaly_days * denom - 10 * numer10) <= denom
                 /\ row.status = StatusOfMean(numer10, denom)
                 /\ (/\ Cardinality(given) = 2
                     /\ \A k, l \in given : RollupWeight(zones[k]) = RollupWeight(zones[l])
                     /\ {zones[k].anomaly_days : k \in given} = {100, -100})
                    => row.anomaly_days = 0 /\ row.status = "normal"

\* A row of the rollup with an anomaly of 7.0 days and the status "normal".
C10_SevenDaysIsNormal ==
  /\ RolledUp
  /\ \E r \in 1..Len(zone_summary) :
       /\ zone_summary[r].anomaly_days = 700
       /\ zone_summary[r].status = "normal"

\* overall_status has returned.
Written == main_pc = "written"

\* The indicators that are not pending, in order.
RECURSIVE WithSignal(_)
WithSignal(n) ==
  IF n = 0 THEN <<>>
  ELSE IF indicators[n].status = "pending" THEN WithSignal(n - 1)
  ELSE Append(WithSignal(n - 1), indicators[n])

\* The weight of a species in the overall rollup.
OverallWeight(species) == Max(1, species.zones_used) * Max(1, species.current_obs_total)

\* Over the first n species of `signals`: the sum of the weights, and the sum
\* of the anomalies (in hundredths of a day) times the weights.
RECURSIVE OverallDenom(_, _)
OverallDenom(signals, n) ==
  IF n = 0 THEN 0 ELSE OverallDenom(signals, n - 1) + OverallWeight(signals[n])

RECURSIVE OverallNumer100(_, _)
OverallNumer100(signals, n) ==
  IF n = 0 THEN 0
  ELSE OverallNumer100(signals, n - 1)
         + signals[n].anomaly_days * OverallWeight(signals[n])

(***************************************************************************)
(* C11: the overall anomaly is the mean of the anomalies of the selected   *)
(* species that are not pending, each weighted by max(1, zones_used) *     *)
(* max(1, current_obs_total) (anomaly_days holds it rounded to two         *)
(* decimals); the pending species change neither the anomaly nor the       *)
(* status, which are those of the selection without them; with no species  *)
(* contributing the anomaly is 0.0; and species_with_signal is the number  *)
(* of selected species that are not pending.                               *)
(***************************************************************************)
C11_OverallIsWeightedMeanOfSignals ==
  Written =>
    LET signals == WithSignal(Len(indicators))
        denom == OverallDenom(signals, Len(signals))
        numer100 == OverallNumer100(signals, Len(signals))
        without == overall_status(signals)
    IN  /\ denom > 0 => 2 * Abs(overall[1].anomaly_days * denom - numer100) <= denom
        /\ denom = 0 => overall[1].anomaly_days = 0
        /\ overall[1].anomaly_days = without.anomaly_days
        /\ overall[1].status = without.status
        /\ overall[1].species_with_signal = Len(signals)
        /\ overall[1].species_count = Len(indicators)

\* A selection of a pending species and of one with an anomaly that is not.
C11_PendingBesideSignal ==
  /\ Written
  /\ \E i, j \in 1..Len(indicators) :
       /\ indicators[i].status = "pending"
       /\ indicators[j].status # "pending"
       /\ indicators[j].anomaly_days # 0
  /\ overall[1].anomaly_days # 0

\* The number of baseline years in which a group of a level has at least
\* min_year_obs of the observations obs_seq.
YearsWith(obs_seq, level, group) ==
  Cardinality({year \in (CURRENT_YEAR - 9)..(CURRENT_YEAR - 1) :
                 Cardinality({i \in 1..Len(obs_seq) :
                                /\ obs_seq[i].year = year
                                /\ GroupOf(obs_seq[i], level) = group})
                   >= Thresholds(level)[1]})

\* No group of obs_seq is admitted, at any of the three levels.
AdmitsNoGroup(obs_seq) ==
  \A level \in {"zone", "side", "state"} : \A i \in 1..Len(obs_seq) :
    YearsWith(obs_seq, level, GroupOf(obs_seq[i], level)) < Thresholds(level)[2]

\* The candidates the loop of main has been through, and those of them
\* without an admitted group.
Processed == {fetched[k] : k \in 1..Min(next_species - 1, Len(fetched))}

WithoutGroups == {c \in Processed : AdmitsNoGroup(Candidates[c].observations)}

RECURSIVE RowSpeciesCount(_)
RowSpeciesCount(n) ==
  IF n = 0 THEN 0 ELSE RowSpeciesCount(n - 1) + zone_summary[n].species_count

(***************************************************************************)
(* C12: a species without an admitted group at any of the three levels     *)
(* has no summary: it is not in species_summaries, not among the           *)
(* indicators, the rows of the zone rollup count the zone results of the   *)
(* indicators only and the overall counts the indicators only; the loop    *)
(* goes on with the next species, every other species it has been through  *)
(* having its summary.                                                     *)
(***************************************************************************)
C12_SkippedSpeciesLeaveNoTrace ==
  main_pc # "idle" =>
    LET names == {Candidates[c].species : c \in WithoutGroups}
    IN  /\ \A i \in 1..Len(species_summaries) : species_summaries[i].species \notin names
        /\ \A i \in 1..Len(indicators) : indicators[i].species \notin names
        /\ Len(species_summaries) = Cardinality(Processed \ WithoutGroups)
        /\ {species_summaries[i].species : i \in 1..Len(species_summaries)}
             = {Candidates[c].species : c \in Processed \ WithoutGroups}
        /\ RolledUp =>
             RowSpeciesCount(Len(zone_summary)) = Len(ZonesOfIndicators(Len(indicators)))
        /\ Written =>
             /\ overall[1].species_count = Len(indicators)
             /\ overall[1].species_count <= Cardinality(Processed \ WithoutGroups)

\* A run that skips its first species and selects its second.
C12_SkippedThenSelected ==
  /\ Written
  /\ Len(fetched) = 2
  /\ fetched[1] \in WithoutGroups
  /\ Len(indicators) = 1
  /\ indicators[1].species = Candidates[fetched[2]].species

(***************************************************************************)
(* The zone key of one observation (336-337), for a point                  *)
(* [lat, lon : floats, elev_m : None or Some float].                       *)
(***************************************************************************)
\* Latitudes, in hundredths of a degree.
Latitudes == {4550, 4600, 4700, 4761, 4900}

\* Longitudes, in hundredths of a degree; -121.80, -121.73 and -121.59 are
\* on the divide at the latitudes 45.50, 46.00 and 47.00.
Longitudes == {-12233, -12180, -12173, -12159, -12051}

\* Elevations, in tenths of a metre.
Elevations == {-100, 0, 4999, 5000, 5001, 11999, 12000, 30000}

\* A hundredth of a degree, and the longitudes around the divide at `lat`.
Hundredth == FromDecimal(1, 2)

AroundDivide(lat) ==
  {cascade_divide_lon(lat),
   FAdd(cascade_divide_lon(lat), Hundredth),
   FSub(cascade_divide_lon(lat), Hundredth)}

PointsAt(lat) ==
  [lat : {lat},
   lon : {FromDecimal(lon, 2) : lon \in Longitudes} \cup AroundDivide(lat),
   elev_m : {None} \cup {Some(FromDecimal(elev, 1)) : elev \in Elevations}]

ZoneKeyInit ==
  /\ \E lat \in Latitudes : \E p \in PointsAt(FromDecimal(lat, 2)) : point = Some(p)
  /\ zone_key = None
  /\ zone_pc = "call"
  /\ today_doy = CHOOSE day \in Todays : \A other \in Todays : day <= other
  /\ SummarizeIdle
  /\ PercentileIdle
  /\ MainIdle
  /\ FetchIdle
  /\ PagingIdle

\* lines 336-337.
ZoneKeyOf ==
  /\ zone_pc = "call"
  /\ zone_key' = Some(side_of_cascades(point[1].lat, point[1].lon)
                        \o "-" \o elevation_band(point[1].elev_m))
  /\ zone_pc' = "returned"
  /\ UNCHANGED <<point, today_doy, svars, pvars, mvars, fvars, gvars>>

ZoneKeyNext == ZoneKeyOf

SpecZoneKey == ZoneKeyInit /\ [][ZoneKeyNext]_vars

ZoneKeys ==
  {side \o "-" \o band : side \in {"east", "west"},
                         band \in {"low", "mid", "high", "unknown"}}

\* The points of the inputs that lie on the divide, in hundredths of a degree.
OnTheDivide == {<<4550, -12180>>, <<4600, -12173>>, <<4700, -12159>>}

Count(seq, z) == Cardinality({i \in 1..Len(seq) : seq[i] = z})

(***************************************************************************)
(* C14: the zones of a Species Summary are the admitted zone results, each *)
(* as often as it was admitted, in the order of non-increasing absolute    *)
(* anomaly_days.                                                           *)
(***************************************************************************)
C14_ZonesByDescendingAnomaly ==
  Returned =>
    LET zones == summary[1].zones
    IN  /\ Len(zones) = Len(zone_results)
        /\ \A i \in 1..Len(zones) : Count(zones, zones[i]) = Count(zone_results, zones[i])
        /\ \A i \in 1..Len(zone_results) :
             Count(zones, zone_results[i]) = Count(zone_results, zone_results[i])
        /\ \A i, j \in 1..Len(zones) :
             i < j => Abs(zones[i].anomaly_days) >= Abs(zones[j].anomaly_days)

\* Two zone results admitted with the smaller absolute anomaly first.
C14_ReorderedZones ==
  /\ Returned
  /\ Len(zone_results) = 2
  /\ Abs(zone_results[1].anomaly_days) < Abs(zone_results[2].anomaly_days)
  /\ summary[1].zones = <<zone_results[2], zone_results[1]>>

(***************************************************************************)
(* C15: a Species Summary with the status "pending" has a                  *)
(* current_obs_total of 0, and none of its zone results is "late".         *)
(***************************************************************************)
C15_PendingHasNoCurrentObservation ==
  (Returned /\ summary[1].status = "pending") =>
    /\ summary[1].current_obs_total = 0
    /\ \A i \in 1..Len(summary[1].zones) : summary[1].zones[i].status # "late"

\* A pending summary of a species observed this year, not after today, in a
\* zone that is not admitted.
C15_PendingWithCurrentObservation ==
  /\ Returned
  /\ summary[1].status = "pending"
  /\ summary[1].current_obs_total >= 1
  /\ \A i \in 1..Len(summary[1].zones) :
       /\ summary[1].zones[i].status = "pending"
       /\ summary[1].zones[i].current_obs = 0
  /\ \E i \in 1..Len(observations) :
       /\ observations[i].year = CURRENT_YEAR
       /\ observations[i].doy <= today_doy
       /\ \A j \in 1..Len(zone_results) : zone_results[j].zone # obs_zone(observations[i])

(***************************************************************************)
(* fetch_json (74-99): the loop of requests.  One action is one pass of    *)
(* the loop: the attempt is counted, the request is made, and its outcome  *)
(* is a payload, an HTTPError with a status code, a URLError, or another   *)
(* exception.  slept lists the calls of time.sleep, each with its reason   *)
(* and its length in hundredths of a second; fetch_pc is "request" in the  *)
(* loop, "returned" or "raised" after it.                                  *)
(***************************************************************************)
THROTTLED_ATTEMPTS == 7
UNREACHABLE_ATTEMPTS == 5
THROTTLED_DELAY_CAP == 60

pause_s == FromDecimal(12, 2)

\* min(60.0, 2.0 * attempt)
throttled_delay(n) ==
  IF FLe(FromInt(THROTTLED_DELAY_CAP), FMul(FromInt(2), FromInt(n)))
  THEN FromInt(THROTTLED_DELAY_CAP)
  ELSE FMul(FromInt(2), FromInt(n))

\* 1.5 * attempt
unreachable_delay(n) == FMul(FromDecimal(15, 1), FromInt(n))

Sleep(reason, seconds) == [reason |-> reason, length |-> RoundScaled(seconds, 2)]

Payloads == {"results", "no results"}

\* The status codes of an HTTPError other than 429.
OtherStatusCodes == {404, 500}

\* The exceptions of a request that are neither HTTPError nor URLError: a
\* timeout while the response is read, a payload that is not JSON.
OtherExceptions == {"TimeoutError", "JSONDecodeError"}

FetchInit ==
  /\ attempt = 0
  /\ slept = <<>>
  /\ fetch_result = NoResult
  /\ fetch_pc = "request"
  /\ today_doy = CHOOSE day \in Todays : \A other \in Todays : day <= other
  /\ SummarizeIdle
  /\ PercentileIdle
  /\ MainIdle
  /\ ZoneKeyIdle
  /\ PagingIdle

\* lines 81-86.
RequestReturns ==
  /\ fetch_pc = "request"
  /\ attempt' = attempt + 1
  /\ \E payload \in Payloads : fetch_result' = FetchResult("payload", payload, 0)
  /\ slept' = Append(slept, Sleep("pause", pause_s))
  /\ fetch_pc' = "returned"
  /\ UNCHANGED <<today_doy, svars, pvars, mvars, zvars, gvars>>

\* lines 87-92, HTTPError 429 on an attempt before the seventh.
ThrottledRetry ==
  /\ fetch_pc = "request"
  /\ attempt + 1 < THROTTLED_ATTEMPTS
  /\ attempt' = attempt + 1
  /\ slept' = Append(slept, Sleep("throttled", throttled_delay(attempt + 1)))
  /\ UNCHANGED <<fetch_result, fetch_pc, today_doy, svars, pvars, mvars, zvars, gvars>>

\* lines 87-93, HTTPError 429 on the seventh attempt.
ThrottledRaises ==
  /\ fetch_pc = "request"
  /\ ~(attempt + 1 < THROTTLED_ATTEMPTS)
  /\ attempt' = attempt + 1
  /\ fetch_result' = FetchResult("error", "HTTPError", 429)
  /\ fetch_pc' = "raised"
  /\ UNCHANGED <<slept, today_doy, svars, pvars, mvars, zvars, gvars>>

\* lines 87-93, HTTPError with another status code.
HTTPErrorRaises ==
  /\ fetch_pc = "request"
  /\ attempt' = attempt + 1
  /\ \E code \in OtherStatusCodes : fetch_result' = FetchResult("error", "HTTPError", code)
  /\ fetch_pc' = "raised"
  /\ UNCHANGED <<slept, today_doy, svars, pvars, mvars, zvars, gvars>>

\* lines 94-98, URLError on an attempt before the fifth.
UnreachableRetry ==
  /\ fetch_pc = "request"
  /\ attempt + 1 < UNREACHABLE_ATTEMPTS
  /\ attempt' = attempt + 1
  /\ slept' = Append(slept, Sleep("unreachable", unreachable_delay(attempt + 1)))
  /\ UNCHANGED <<fetch_result, fetch_pc, today_doy, svars, pvars, mvars, zvars, gvars>>

\* A URLError on the fifth or the sixth attempt retried like the ones before.
UnreachableRetryAnyway ==
  /\ fetch_pc = "request"
  /\ ~(attempt + 1 < UNREACHABLE_ATTEMPTS)
  /\ attempt + 1 < THROTTLED_ATTEMPTS
  /\ attempt' = attempt + 1
  /\ slept' = Append(slept, Sleep("unreachable", unreachable_delay(attempt + 1)))
  /\ UNCHANGED <<fetch_result, fetch_pc, today_doy, svars, pvars, mvars, zvars, gvars>>

\* lines 94-99, URLError on the fifth attempt or a later one.
UnreachableRaises ==
  /\ fetch_pc = "request"
  /\ ~(attempt + 1 < UNREACHABLE_ATTEMPTS)
  /\ attempt' = attempt + 1
  /\ fetch_result' = FetchResult("error", "URLError", 0)
  /\ fetch_pc' = "raised"
  /\ UNCHANGED <<slept, today_doy, svars, pvars, mvars, zvars, gvars>>

\* An exception no except clause catches leaves the function.
OtherExceptionRaises ==
  /\ fetch_pc = "request"
  /\ attempt' = attempt + 1
  /\ \E exception \in OtherExceptions : fetch_result' = FetchResult("error", exception, 0)
  /\ fetch_pc' = "raised"
  /\ UNCHANGED <<slept, today_doy, svars, pvars, mvars, zvars, gvars>>

FetchNext ==
  \/ RequestReturns
  \/ ThrottledRetry
  \/ ThrottledRaises
  \/ HTTPErrorRaises
  \/ UnreachableRetry
  \/ UnreachableRaises
  \/ OtherExceptionRaises

SpecFetch == FetchInit /\ [][FetchNext]_vars

\* The lengths of the waits before the retries, in hundredths of a second.
RECURSIVE RetryWaits(_)
RetryWaits(n) ==
  IF n = 0 THEN <<>>
  ELSE IF slept[n].reason = "pause" THEN RetryWaits(n - 1)
  ELSE Append(RetryWaits(n - 1), slept[n].length)

(***************************************************************************)
(* C16: the failures of the network are retried a bounded number of times  *)
(* (at most six retries), and the wait before the k-th retry grows         *)
(* exponentially with k up to the cap of 60 s: each wait is longer than    *)
(* the one before unless it is the cap, and below the cap the waits are in *)
(* geometric progression.                                                  *)
(***************************************************************************)
C16_BackoffIsExponential ==
  LET waits == RetryWaits(Len(slept))
      cap == 100 * THROTTLED_DELAY_CAP
  IN  /\ Len(waits) <= THROTTLED_ATTEMPTS - 1
      /\ \A k \in 1..Len(waits) : waits[k] <= cap
      /\ \A k \in 1..(Len(waits) - 1) : waits[k + 1] > waits[k] \/ waits[k + 1] = cap
      /\ \A k \in 1..(Len(waits) - 2) :
           waits[k + 2] = cap \/ waits[k + 2] * waits[k] = waits[k + 1] * waits[k + 1]

\* Three answers 429 in a row: waits of 2 s, 4 s and 6 s.
C16_LinearWaits ==
  /\ fetch_pc = "request"
  /\ attempt = 3
  /\ slept = <<[reason |-> "throttled", length |-> 200],
               [reason |-> "throttled", length |-> 400],
               [reason |-> "throttled", length |-> 600]>>

(***************************************************************************)
(* C17: in every zone result, whatever the observations (those dated in    *)
(* the current year after today included), has_current is true if and     *)
(* only if current_obs is at least 1.                                      *)
(***************************************************************************)
C17_HasCurrentIffCounted ==
  ResultsIn =>
    \A i \in 1..Len(zone_results) :
      zone_results[i].has_current <=> zone_results[i].current_obs >= 1

\* A zone result with current data of which no observation is counted: the
\* group was observed this year after today only.
C17_CurrentDataNotCounted ==
  /\ ResultsIn
  /\ \E i \in 1..Len(zone_results) :
       /\ zone_results[i].has_current
       /\ zone_results[i].current_obs = 0
       /\ zone_results[i].current_doy # None
  /\ \A k \in 1..Len(observations) :
       observations[k].year = CURRENT_YEAR => observations[k].doy > today_doy

\* The zone results of the indicators that are rolled up into the row `zone`.
Contributing(zone) ==
  LET zones == ZonesOfIndicators(Len(indicators))
  IN  {zones[k] : k \in {k \in 1..Len(zones) : zones[k].zone = zone}}

\* A zone result carries a signal: it has current data, or it is late
\* without.
CarriesSignal(z) == z.has_current \/ z.status = "late"

(***************************************************************************)
(* C18: a row of the zone rollup is "early" or "late" only if at least one *)
(* of the zone results rolled up into it carries a signal (it has current  *)
(* data, or it is "late" without current data); pending zone results alone *)
(* never make a row "early" or "late".                                     *)
(***************************************************************************)
C18_RollupStatusNeedsSignal ==
  RolledUp =>
    \A r \in 1..Len(zone_summary) :
      zone_summary[r].status \in {"early", "late"}
        => \E z \in Contributing(zone_summary[r].zone) : CarriesSignal(z)

\* A row "early" of which every zone result is pending.
C18_EarlyFromPendingAlone ==
  /\ RolledUp
  /\ \E r \in 1..Len(zone_summary) :
       /\ zone_summary[r].status = "early"
       /\ Contributing(zone_summary[r].zone) # {}
       /\ \A z \in Contributing(zone_summary[r].zone) :
            z.status = "pending" /\ ~z.has_current

(***************************************************************************)
(* C19: admission is monotone in the granularity: the side of an admitted  *)
(* zone is admitted, and if a side is admitted the state is; and           *)
(* summarize_species returns None if and only if fewer than 4 of the       *)
(* baseline years have at least 2 observations statewide.                  *)
(***************************************************************************)
C19_AdmissionIsMonotone ==
  pc # "idle" =>
    LET zones == Admitted("zone")
        sides == Admitted("side")
        years == Cardinality(QualifyingYears("state", "statewide"))
    IN  /\ \A place \in Places :
             ZoneOfPlace[place] \in zones => SideOfPlace[place] \in sides
        /\ sides # {} => years >= 4
        /\ pc = "returned" => (summary = None <=> years < 4)

\* A summary at the state level: the state is admitted and no side is.
C19_StatewideOnly ==
  /\ Returned
  /\ summary[1].granularity = "state"
  /\ Admitted("side") = {}
  /\ Admitted("zone") = {}
  /\ Cardinality(QualifyingYears("state", "statewide")) = 4

(***************************************************************************)
(* C20: the zone key of every row of the zone rollup has the form          *)
(* side-band, whatever the granularity the selected species were           *)
(* evaluated at (zone, side or state).                                     *)
(***************************************************************************)
C20_RollupKeysAreZoneKeys ==
  RolledUp => \A r \in 1..Len(zone_summary) : zone_summary[r].zone \in ZoneKeys

\* A row for a side, from a species evaluated at the side level.
C20_RowOfASide ==
  /\ RolledUp
  /\ \E i \in 1..Len(indicators) :
       /\ indicators[i].granularity = "side"
       /\ \E r \in 1..Len(zone_summary) :
            /\ zone_summary[r].zone = indicators[i].zones[1].zone
            /\ zone_summary[r].zone \in {"east", "west"}

\* A pass of the loop, whatever its outcome: the attempt is counted (81).
FetchPass == fetch_pc = "request" /\ attempt' = attempt + 1

\* fetch_json with every pass of the loop eventually made: a request is
\* answered or times out (timeout=45), and no sleep is endless.
SpecFetchFair == FetchInit /\ [][FetchNext]_vars /\ WF_attempt(FetchPass)

\* What holds of a call of fetch_json at any time.  Every attempt but the
\* last ended in a retry, and a retry is one sleep.
FetchWithinAttempts ==
  /\ attempt <= THROTTLED_ATTEMPTS
  /\ Len(RetryWaits(Len(slept))) = IF fetch_pc = "request" THEN attempt ELSE attempt - 1
  /\ \A k \in 1..Len(slept) :
       /\ slept[k].reason = "throttled" => k < THROTTLED_ATTEMPTS
       /\ slept[k].reason = "unreachable" => k < UNREACHABLE_ATTEMPTS
       /\ slept[k].reason = "pause" => k = attempt /\ fetch_pc = "returned"
  /\ fetch_pc = "request" => fetch_result = NoResult
  /\ fetch_pc = "returned" =>
       /\ fetch_result.kind = "payload"
       /\ fetch_result.value \in Payloads
       /\ slept[attempt].reason = "pause"
  /\ fetch_pc = "raised" =>
       /\ fetch_result.kind = "error"
       /\ fetch_result.value = "URLError" => attempt >= UNREACHABLE_ATTEMPTS
       /\ (fetch_result.value = "HTTPError" /\ fetch_result.code = 429)
            => attempt = THROTTLED_ATTEMPTS

(***************************************************************************)
(* C21: a call of fetch_json ends after at most 7 requests, whatever the   *)
(* answers 429 and the URLErrors and their order: it returns the payload   *)
(* of the first request that succeeds, or it raises; a URLError on the     *)
(* fifth attempt or later and a 429 on the seventh are raised and not      *)
(* retried, and an HTTPError other than 429 is raised at once, without a   *)
(* sleep and without another request.                                      *)
(***************************************************************************)
C21_FetchEndsWithinSevenAttempts ==
  /\ []FetchWithinAttempts
  /\ <>(fetch_pc \in {"returned", "raised"})
  /\ [][/\ fetch_pc' # "request" => fetch_pc = "request"
        /\ fetch_pc # "request" => UNCHANGED fvars
        /\ (fetch_pc' = "raised" /\ fetch_pc = "request")
             => attempt' = attempt + 1 /\ slept' = slept]_vars

\* The seventh request answered 429 after retries of both kinds.
C21_SeventhAttemptRaises ==
  /\ fetch_pc = "raised"
  /\ attempt = THROTTLED_ATTEMPTS
  /\ fetch_result = FetchResult("error", "HTTPError", 429)
  /\ Len(slept) = THROTTLED_ATTEMPTS - 1
  /\ \E k \in 1..Len(slept) : slept[k].reason = "unreachable"

(***************************************************************************)
(* fetch_species_observations (164-195): the paging loop.  One action is   *)
(* one pass: the page is fetched, its results are parsed and those that    *)
(* parse are appended, then the two tests of 190-193.  A page has at most  *)
(* PER_PAGE results, of which any number may fail to parse.                *)
(***************************************************************************)
PER_PAGE == 200
MAX_RECORDS_PER_SPECIES == 1400

\* The loop has no bound of its own on the pages: full pages of which too
\* few results parse go on for as long as the API returns them.
MaxPages == 9

\* The numbers of results of a page, and of those of n that parse.
PageSizes == {0, 1, PER_PAGE - 1, PER_PAGE}

ParsedOf(n) == {0, n - 1, n} \cap (0..n)

PagingInit ==
  /\ page = 1
  /\ results_len = 0
  /\ observations_len = 0
  /\ paging_pc = "paging"
  /\ today_doy = CHOOSE day \in Todays : \A other \in Todays : day <= other
  /\ SummarizeIdle
  /\ PercentileIdle
  /\ MainIdle
  /\ ZoneKeyIdle
  /\ FetchIdle

\* lines 167-189: the page fetched and parsed.
PageParsed(n, parsed) ==
  /\ paging_pc = "paging"
  /\ results_len' = n
  /\ observations_len' = observations_len + parsed

\* An empty or a short page: the break of 190-191.
LastPage ==
  /\ \E n \in PageSizes : \E parsed \in ParsedOf(n) :
       /\ PageParsed(n, parsed)
       /\ n = 0 \/ n < PER_PAGE
  /\ paging_pc' = "returned"
  /\ UNCHANGED <<page, today_doy, svars, pvars, mvars, zvars, fvars>>

\* A full page that fills the list: the break of 192-193.
EnoughRecords ==
  /\ \E n \in PageSizes : \E parsed \in ParsedOf(n) :
       /\ PageParsed(n, parsed)
       /\ ~(n = 0 \/ n < PER_PAGE)
       /\ observations_len + parsed >= MAX_RECORDS_PER_SPECIES
  /\ paging_pc' = "returned"
  /\ UNCHANGED <<page, today_doy, svars, pvars, mvars, zvars, fvars>>

\* A full page that does not: page += 1 (194).
NextPage ==
  /\ page < MaxPages
  /\ \E n \in PageSizes : \E parsed \in ParsedOf(n) :
       /\ PageParsed(n, parsed)
       /\ ~(n = 0 \/ n < PER_PAGE)
       /\ ~(observations_len + parsed >= MAX_RECORDS_PER_SPECIES)
  /\ page' = page + 1
  /\ UNCHANGED <<paging_pc, today_doy, svars, pvars, mvars, zvars, fvars>>

\* fetch_json raises: the exception leaves fetch_species_observations.
PageRaises ==
  /\ paging_pc = "paging"
  /\ paging_pc' = "raised"
  /\ UNCHANGED <<page, results_len, observations_len, today_doy,
                 svars, pvars, mvars, zvars, fvars>>

PagingNext ==
  \/ LastPage
  \/ EnoughRecords
  \/ NextPage
  \/ PageRaises

SpecPaging == PagingInit /\ [][PagingNext]_vars

(***************************************************************************)
(* C22: the list fetch_species_observations returns never holds more than  *)
(* MAX_RECORDS_PER_SPECIES (1400) observations, whatever the pages (each   *)
(* of at most PER_PAGE = 200 results, any of which may fail to parse), and *)
(* the loop stops after the first page that is empty or shorter than       *)
(* PER_PAGE.                                                               *)
(***************************************************************************)
C22_AtMostMaxRecords ==
  /\ [](paging_pc = "returned" => observations_len <= MAX_RECORDS_PER_SPECIES)
  /\ [][(paging_pc = "paging" /\ results_len' < PER_PAGE /\ paging_pc' # "raised")
          => paging_pc' = "returned"]_vars
  /\ [][paging_pc # "paging" => UNCHANGED gvars]_vars

\* Seven full pages of which one result does not parse, then an eighth:
\* 1599 observations returned.
C22_OneMorePage ==
  /\ paging_pc = "returned"
  /\ page = 8
  /\ results_len = PER_PAGE
  /\ observations_len = MAX_RECORDS_PER_SPECIES + PER_PAGE - 1

====
